---- MODULE Spec2Model ----
(***************************************************************************)
(* Rating replay engine of the Blood on the Clocktower Elo tracker          *)
(* (src/botc_elo.py): the global game_log and players mapping, the full    *)
(* replay recalc_all, and the three history mutations of the UI            *)
(* (submit_game, EditSingleGameWindow.save_changes,                        *)
(* EditGameWindow.delete_selected) together with load_data / save_data.    *)
(*                                                                         *)
(* Arithmetic.  The program computes ratings in IEEE doubles.  Here a      *)
(* rating is an integer number of 1/Scale rating points and an expected    *)
(* score an integer number of 1/Scale, so that                             *)
(* ELO_K_FACTOR * (result - expected) needs no division.  expected_score   *)
(* is the logistic curve of the source, tabulated every TableStep rating   *)
(* points and interpolated linearly in between.                            *)
(*                                                                         *)
(* A roster is the list returned by parse_team_input: one entry per        *)
(* non-blank line, in line order.  Only the name of an entry takes part in *)
(* the replay arithmetic; the role, roles, initial_team and date fields    *)
(* are copied through by record_game and are not represented there.        *)
(*                                                                         *)
(* The leaderboard is the list of rows of the Treeview, written by         *)
(* refresh_player_table from the text of the game range entry: the        *)
(* rating-change column of a row is get_rating_delta over the range that   *)
(* parse_game_range reads from that text.                                  *)
(*                                                                         *)
(* Texts.  The game range entry is a sequence of characters.  A roster     *)
(* line, a character name and a script name are sequences of words and     *)
(* separators; lower and capitalize act on the words through WordForms.    *)
(*                                                                         *)
(* Spec is a session that starts without files.  SpecRaising adds replays  *)
(* that raise.  SpecLoaded is a session that starts on the files of        *)
(* earlier sessions, with enough games for players to be listed on the     *)
(* leaderboard.  SpecRange adds typing into the game range entry.          *)
(* SpecWindows adds the edit windows, each with the listbox it filled when *)
(* it was opened.  SpecCalls applies the functions that keep no state of   *)
(* their own (roster parsing, the edit form, character statistics, role    *)
(* types, script categories, the deltas of one game in binary floating     *)
(* point of MantissaBits bits) to inputs drawn from bounded sets.          *)
(***************************************************************************)
EXTENDS Integers, Sequences, FiniteSets, TLC

\* ---------------------------------------------------------------- bounds
MaxGames == 2      \* records the history may hold
MaxLines == 2      \* non-blank roster lines of one submission (both teams)
MaxGameId == 2     \* largest game_id handed out
MaxLinesRaising == 1  \* the same in the specification with raising replays
MaxLoadedGames == 6   \* records of a history that started loaded
MinLoadedGames == 3   \* no delete below that many records there
MaxLoadedGameId == 7  \* largest game_id handed out there
MaxRow == 1           \* listbox rows picked there: 1..MaxRow
MaxWindows == 2       \* edit windows open at a time
MaxRangeLen == 3      \* characters of the game range entry
MaxBoxLines == 2      \* lines of one team box of the form
MaxWindowRow == 2     \* listbox rows picked in an edit window
MaxStatGames == 2     \* games of a character statistics update
MantissaBits == 8     \* mantissa of the binary floating point numbers
MaxGapSteps == 100    \* rating gaps of one game, in steps of TableStep
MaxStatPlayers == 2   \* players of one game of the statistics update

Names == {"A", "B"}

\* ------------------------------------------------------------- constants
DEFAULT_RATING == 1500
ELO_K_FACTOR == 32

Scale == 10000     \* rating units per rating point; also the value of 1.0
TableStep == 16    \* rating points between two tabulated values
TableHalf == 50    \* tabulated steps on each side of a zero difference

None == -1         \* Python None of a win percentage

\* 1 / (1 + 10^(-d/400)) in 1/Scale, for d = TableStep * (i - 1 - TableHalf)
ExpTable ==
  << 99, 108, 119, 130, 142, 156, 171, 187, 205, 224, 245, 268, 293, 321,
     350, 383, 418, 457, 499, 544, 594, 647, 705, 768, 836, 909, 988, 1073,
     1165, 1263, 1368, 1481, 1600, 1728, 1864, 2008, 2159, 2319, 2488, 2664,
     2847, 3039, 3237, 3442, 3653, 3869, 4089, 4314, 4541, 4770, 5000, 5230,
     5459, 5686, 5911, 6131, 6347, 6558, 6763, 6961, 7153, 7336, 7512, 7681,
     7841, 7992, 8136, 8272, 8400, 8519, 8632, 8737, 8835, 8927, 9012, 9091,
     9164, 9232, 9295, 9353, 9406, 9456, 9501, 9543, 9582, 9617, 9650, 9679,
     9707, 9732, 9755, 9776, 9795, 9813, 9829, 9844, 9858, 9870, 9881, 9892,
     9901 >>

VARIABLES
  game_log,        \* module global game_log: list of game records
  players,         \* module global players: name -> Player
  next_game_id,    \* EloTrackerApp.next_game_id
  saved_players,   \* contents of players.json
  saved_game_log,  \* contents of gamelog.json
  tree,            \* rows of the leaderboard Treeview, top row first
  op,              \* the UI event handled last and its inputs
  game_range_entry,\* text of EloTrackerApp.game_range_entry, one character
                   \* per element
  listbox,         \* the Edit Game Log windows: window -> its listbox rows
  call             \* the function called last, its arguments and its result

vars == <<game_log, players, next_game_id, saved_players, saved_game_log,
          tree, op, game_range_entry, listbox, call>>

\* ------------------------------------------------------------ Player
NewPlayer(name) ==
  [ name |-> name,
    current_rating |-> DEFAULT_RATING * Scale,
    rating_history |-> <<>>,
    game_history |-> <<>>,
    games_overall |-> 0, wins_overall |-> 0,
    games_good |-> 0, wins_good |-> 0,
    games_evil |-> 0, wins_evil |-> 0 ]

Pct(wins, games) ==
  IF games > 0 THEN (wins * 100 * Scale) \div games ELSE None

Count(b) == IF b THEN 1 ELSE 0

\* record_game with the Evil branch never taken
record_game_NoEvilCount(pl, game_number, team, win, rating_before, rating_after) ==
  LET go == pl.games_overall + 1
      wo == pl.wins_overall + Count(win)
      gg == pl.games_good + Count(team = "Good")
      wg == pl.wins_good + Count(team = "Good" /\ win)
  IN  [ pl EXCEPT
          !.game_history = Append(@,
              [ game_number |-> game_number, team |-> team, win |-> win,
                rating_before |-> rating_before,
                rating_after |-> rating_after ]),
          !.games_overall = go, !.wins_overall = wo,
          !.games_good = gg, !.wins_good = wg,
          !.rating_history = Append(@,
              [ game_number |-> game_number, rating |-> rating_after,
                overall_win_pct |-> Pct(wo, go),
                good_win_pct |-> Pct(wg, gg),
                evil_win_pct |-> Pct(pl.wins_evil, pl.games_evil) ]) ]

record_game(pl, game_number, team, win, rating_before, rating_after) ==
  LET go == pl.games_overall + 1
      wo == pl.wins_overall + Count(win)
      gg == pl.games_good + Count(team = "Good")
      wg == pl.wins_good + Count(team = "Good" /\ win)
      ge == pl.games_evil + Count(team # "Good" /\ team = "Evil")
      we == pl.wins_evil + Count(team # "Good" /\ team = "Evil" /\ win)
  IN  [ pl EXCEPT
          !.game_history = Append(@,
              [ game_number |-> game_number, team |-> team, win |-> win,
                rating_before |-> rating_before,
                rating_after |-> rating_after ]),
          !.games_overall = go, !.wins_overall = wo,
          !.games_good = gg, !.wins_good = wg,
          !.games_evil = ge, !.wins_evil = we,
          !.rating_history = Append(@,
              [ game_number |-> game_number, rating |-> rating_after,
                overall_win_pct |-> Pct(wo, go),
                good_win_pct |-> Pct(wg, gg),
                evil_win_pct |-> Pct(we, ge) ]) ]

to_dict(pl) ==
  [ name |-> pl.name, current_rating |-> pl.current_rating,
    rating_history |-> pl.rating_history, game_history |-> pl.game_history ]

from_dict(data) ==
  [ NewPlayer(data.name) EXCEPT
      !.current_rating = data.current_rating,
      !.rating_history = data.rating_history,
      !.game_history = data.game_history ]

\* ------------------------------------------------------------ Elo
Clamp(d, lo, hi) == IF d < lo THEN lo ELSE IF d > hi THEN hi ELSE d

expected_score(ratingA, ratingB) ==
  LET span == TableStep * Scale
      half == TableHalf * span
      pos  == Clamp(ratingA - ratingB, -half, half - 1) + half
      i    == (pos \div span) + 1
      frac == pos % span
  IN  ExpTable[i] + ((ExpTable[i + 1] - ExpTable[i]) * frac) \div span

RECURSIVE SumRatings(_, _, _)
SumRatings(ps, team_list, i) ==
  IF i > Len(team_list) THEN 0
  ELSE ps[team_list[i].name].current_rating + SumRatings(ps, team_list, i + 1)

\* the average of an empty team taken as 0
team_average_EmptyZero(ps, team_list) ==
  IF team_list = <<>> THEN 0
  ELSE SumRatings(ps, team_list, 1) \div Len(team_list)

team_average(ps, team_list) ==
  IF team_list = <<>> THEN DEFAULT_RATING * Scale
  ELSE SumRatings(ps, team_list, 1) \div Len(team_list)

IsGood(p) == p.team = "Good"
IsEvil(p) == p.team = "Evil"

EntryDelta(team, result_good, result_evil, exp_good, exp_evil) ==
  IF team = "Good" THEN ELO_K_FACTOR * (result_good * Scale - exp_good)
  ELSE ELO_K_FACTOR * (result_evil * Scale - exp_evil)

\* ------------------------------------------------------------ replay
\* the reset without clearing rating_history
ResetPlayer_KeepSnapshots(pl) ==
  [NewPlayer(pl.name) EXCEPT !.rating_history = pl.rating_history]

\* the reset without current_rating = DEFAULT_RATING
ResetPlayer_KeepRating(pl) ==
  [NewPlayer(pl.name) EXCEPT !.current_rating = pl.current_rating]

ResetPlayer(pl) == NewPlayer(pl.name)

ResetAll(ps) == [n \in DOMAIN ps |-> ResetPlayer(ps[n])]

\* the list left in stored order
InsertById_StoredOrder(sorted, g) == Append(sorted, g)

RECURSIVE InsertById(_, _)
InsertById(sorted, g) ==
  IF sorted = <<>> THEN <<g>>
  ELSE IF sorted[Len(sorted)].game_id <= g.game_id THEN Append(sorted, g)
       ELSE Append(InsertById(SubSeq(sorted, 1, Len(sorted) - 1), g),
                   sorted[Len(sorted)])

\* the sort with reverse=True
RECURSIVE SortedGames_Descending(_)
SortedGames_Descending(log) ==
  IF log = <<>> THEN <<>>
  ELSE LET rest == SortedGames_Descending(SubSeq(log, 1, Len(log) - 1))
           g == log[Len(log)]
           Higher(x) == x.game_id >= g.game_id
           Lower(x) == x.game_id < g.game_id
       IN  SelectSeq(rest, Higher) \o <<g>> \o SelectSeq(rest, Lower)

RECURSIVE SortedGames(_)
SortedGames(log) ==
  IF log = <<>> THEN <<>>
  ELSE InsertById(SortedGames(SubSeq(log, 1, Len(log) - 1)), log[Len(log)])

GameNames(game) == {game.players[i].name : i \in 1..Len(game.players)}

EnsurePlayers(ps, game) ==
  [n \in DOMAIN ps \cup GameNames(game) |->
     IF n \in DOMAIN ps THEN ps[n] ELSE NewPlayer(n)]

\* the loop with the expected scores recomputed for every entry from the
\* ratings already updated
RECURSIVE ApplyEntries_RecomputeExpected(_, _, _, _, _)
ApplyEntries_RecomputeExpected(ps, game, i, exp_good, exp_evil) ==
  IF i > Len(game.players) THEN ps
  ELSE
    LET p == game.players[i]
        pl == ps[p.name]
        e_good == expected_score(
                    team_average(ps, SelectSeq(game.players, IsGood)),
                    team_average(ps, SelectSeq(game.players, IsEvil)))
        result_good == IF game.winning_team = "Good" THEN 1 ELSE 0
        result_evil == IF game.winning_team = "Good" THEN 0 ELSE 1
        rating_before == pl.current_rating
        delta == EntryDelta(p.team, result_good, result_evil,
                            e_good, Scale - e_good)
        new_rating == rating_before + delta
        win == p.team = game.winning_team
        pl2 == record_game([pl EXCEPT !.current_rating = new_rating],
                           game.game_id, p.team, win, rating_before, new_rating)
    IN  ApplyEntries_RecomputeExpected([ps EXCEPT ![p.name] = pl2], game, i + 1,
                                       exp_good, exp_evil)

RECURSIVE ApplyEntries(_, _, _, _, _)
ApplyEntries(ps, game, i, exp_good, exp_evil) ==
  IF i > Len(game.players) THEN ps
  ELSE
    LET p == game.players[i]
        pl == ps[p.name]
        result_good == IF game.winning_team = "Good" THEN 1 ELSE 0
        result_evil == IF game.winning_team = "Good" THEN 0 ELSE 1
        rating_before == pl.current_rating
        delta == EntryDelta(p.team, result_good, result_evil,
                            exp_good, exp_evil)
        new_rating == rating_before + delta
        win == p.team = game.winning_team
        pl2 == record_game([pl EXCEPT !.current_rating = new_rating],
                           game.game_id, p.team, win, rating_before, new_rating)
    IN  ApplyEntries([ps EXCEPT ![p.name] = pl2], game, i + 1,
                     exp_good, exp_evil)

ReplayGame(ps, game) ==
  LET ps1 == EnsurePlayers(ps, game)
      team_good == SelectSeq(game.players, IsGood)
      team_evil == SelectSeq(game.players, IsEvil)
      avg_good == team_average(ps1, team_good)
      avg_evil == team_average(ps1, team_evil)
      exp_good == expected_score(avg_good, avg_evil)
      exp_evil == Scale - exp_good
  IN  ApplyEntries(ps1, game, 1, exp_good, exp_evil)

RECURSIVE ReplayGames(_, _, _)
ReplayGames(ps, sorted_games, i) ==
  IF i > Len(sorted_games) THEN ps
  ELSE ReplayGames(ReplayGame(ps, sorted_games[i]), sorted_games, i + 1)

recalc_all(ps, log) == ReplayGames(ResetAll(ps), SortedGames(log), 1)

\* ------------------------------------------------------------ persistence
EmptyPlayers == [n \in {} |-> NewPlayer(n)]

save_players(ps) == [n \in DOMAIN ps |-> to_dict(ps[n])]

load_players(file) == [n \in DOMAIN file |-> from_dict(file[n])]

\* the greatest id taken to be the number of records
MaxId_Count(log) == Len(log)

MaxId(log) ==
  IF log = <<>> THEN 0
  ELSE CHOOSE m \in {log[i].game_id : i \in 1..Len(log)} :
         \A j \in 1..Len(log) : log[j].game_id <= m

\* ------------------------------------------------------------ leaderboard
MinGamesShown == 5   \* refresh_player_table skips a player with fewer games

\* f"{value:.1f}" of a percentage, in tenths of a percent, or "N/A"
pct_to_str(value) ==
  IF value = None THEN [na |-> TRUE, tenths |-> 0]
  ELSE LET unit == Scale \div 10
           q == value \div unit
           rem == value % unit
       IN  [na |-> FALSE,
            tenths |-> IF 2 * rem > unit \/ (2 * rem = unit /\ q % 2 = 1)
                       THEN q + 1 ELSE q]

\* round(player.current_rating, 1), in tenths of a rating point
RoundedRating(rating) ==
  LET unit == Scale \div 10
      q == rating \div unit
      rem == rating % unit
  IN  IF 2 * rem > unit \/ (2 * rem = unit /\ q % 2 = 1) THEN q + 1 ELSE q

\* players.items(): the players in some fixed order (the order of insertion
\* into the dict is not represented; it only decides between equal ratings)
NameOrder == <<"A", "B">>

Items(S) ==
  LET In(n) == n \in S IN SelectSeq(NameOrder, In)

RECURSIVE InsertByRating(_, _, _)
InsertByRating(ps, sorted, n) ==
  IF sorted = <<>> THEN <<n>>
  ELSE IF ps[sorted[Len(sorted)]].current_rating >= ps[n].current_rating
       THEN Append(sorted, n)
       ELSE Append(InsertByRating(ps, SubSeq(sorted, 1, Len(sorted) - 1), n),
                   sorted[Len(sorted)])

\* sorted(players.items(), key=current_rating, reverse=True)
RECURSIVE SortedByRating(_, _)
SortedByRating(ps, items) ==
  IF items = <<>> THEN <<>>
  ELSE InsertByRating(ps, SortedByRating(ps, SubSeq(items, 1, Len(items) - 1)),
                      items[Len(items)])

\* the first snapshot taken instead of rating_history[-1]
LastSnapshot_First(pl) ==
  IF pl.rating_history # <<>> THEN pl.rating_history[1]
  ELSE [ game_number |-> 0, rating |-> pl.current_rating,
         overall_win_pct |-> None, good_win_pct |-> None,
         evil_win_pct |-> None ]

LastSnapshot(pl) ==
  IF pl.rating_history # <<>> THEN pl.rating_history[Len(pl.rating_history)]
  ELSE [ game_number |-> 0, rating |-> pl.current_rating,
         overall_win_pct |-> None, good_win_pct |-> None,
         evil_win_pct |-> None ]

\* ---- text: a str is the sequence of its characters
RECURSIVE lstrip(_)
lstrip(str) ==
  IF str # <<>> /\ Head(str) = " " THEN lstrip(Tail(str)) ELSE str

RECURSIVE rstrip(_)
rstrip(str) ==
  IF str # <<>> /\ str[Len(str)] = " "
  THEN rstrip(SubSeq(str, 1, Len(str) - 1)) ELSE str

\* str.strip()
strip(str) == rstrip(lstrip(str))

\* str.split(sep) for a separator of one character: the pieces between the
\* separators, empty pieces kept
RECURSIVE split(_, _)
split(str, sep) ==
  IF \A i \in 1..Len(str) : str[i] # sep THEN <<str>>
  ELSE LET i == CHOOSE k \in 1..Len(str) :
                  str[k] = sep /\ \A j \in 1..(k - 1) : str[j] # sep
       IN  <<SubSeq(str, 1, i - 1)>> \o split(SubSeq(str, i + 1, Len(str)), sep)

DigitValue ==
  ("0" :> 0) @@ ("1" :> 1) @@ ("2" :> 2) @@ ("3" :> 3) @@ ("4" :> 4) @@
  ("5" :> 5) @@ ("6" :> 6) @@ ("7" :> 7) @@ ("8" :> 8) @@ ("9" :> 9)

\* int(str) does not raise ValueError (signs and digit-group underscores are
\* not among the characters typed here)
IsInt(str) ==
  LET t == strip(str)
  IN  t # <<>> /\ \A i \in 1..Len(t) : t[i] \in DOMAIN DigitValue

RECURSIVE DecimalValue(_)
DecimalValue(t) ==
  IF t = <<>> THEN 0
  ELSE 10 * DecimalValue(SubSeq(t, 1, Len(t) - 1)) + DigitValue[t[Len(t)]]

\* int(str) of a str with IsInt(str)
int(str) == DecimalValue(strip(str))

\* ---- game range
\* what parse_game_range returns: the tuple (start_game, end_game), or None
\* when the function ends without a return statement (pair = FALSE)
RangePair(start_game, end_game) ==
  [pair |-> TRUE, start_game |-> start_game, end_game |-> end_game]
NoReturnValue == [pair |-> FALSE, start_game |-> None, end_game |-> None]

parse_game_range(entry_text) ==
  LET range_str == strip(entry_text)
  IN  IF range_str = <<>> THEN RangePair(None, None)
      ELSE IF \E i \in 1..Len(range_str) : range_str[i] = "-"
      THEN LET parts == split(range_str, "-")
           IN  IF Len(parts) = 2
               THEN LET start_str == strip(parts[1])
                        end_str == strip(parts[2])
                    IN  IF \/ start_str # <<>> /\ ~IsInt(start_str)
                           \/ end_str # <<>> /\ ~IsInt(end_str)
                        THEN RangePair(None, None)       \* except ValueError
                        ELSE RangePair(
                               IF start_str # <<>> THEN int(start_str) ELSE None,
                               IF end_str # <<>> THEN int(end_str) ELSE None)
               ELSE NoReturnValue
      ELSE IF IsInt(range_str)
           THEN RangePair(int(range_str), int(range_str))
           ELSE RangePair(None, None)                    \* except ValueError

\* ---- get_rating_delta
\* a rating or a rating difference, or None
NoRating == [none |-> TRUE, value |-> 0]
SomeRating(v) == [none |-> FALSE, value |-> v]

\* the first loop with "<=" for "<"
RECURSIVE DeltaRatingBefore_Inclusive(_, _, _, _)
DeltaRatingBefore_Inclusive(history, start_game, i, rating_before) ==
  IF i > Len(history) THEN rating_before
  ELSE IF history[i].game_number <= start_game
       THEN DeltaRatingBefore_Inclusive(history, start_game, i + 1,
                                        history[i].rating)
       ELSE rating_before

\* the first loop: the rating of the last entry before the first one with
\* game_number >= start_game
RECURSIVE DeltaRatingBefore(_, _, _, _)
DeltaRatingBefore(history, start_game, i, rating_before) ==
  IF i > Len(history) THEN rating_before
  ELSE IF history[i].game_number < start_game
       THEN DeltaRatingBefore(history, start_game, i + 1, history[i].rating)
       ELSE rating_before

\* the second loop: the first entry numbered end_game, unless an entry with
\* a greater number comes first
RECURSIVE DeltaRatingAfterExact(_, _, _)
DeltaRatingAfterExact(history, end_game, i) ==
  IF i > Len(history) THEN NoRating
  ELSE IF history[i].game_number = end_game THEN SomeRating(history[i].rating)
  ELSE IF history[i].game_number > end_game THEN NoRating
  ELSE DeltaRatingAfterExact(history, end_game, i + 1)

\* the loop over reversed(rating_history)
RECURSIVE DeltaRatingAfterNearest(_, _, _)
DeltaRatingAfterNearest(history, end_game, i) ==
  IF i = 0 THEN NoRating
  ELSE IF history[i].game_number <= end_game
       THEN SomeRating(history[i].rating)
       ELSE DeltaRatingAfterNearest(history, end_game, i - 1)

get_rating_delta(player, start_game, end_game) ==
  IF start_game = None \/ end_game = None THEN NoRating
  ELSE IF player.rating_history = <<>> THEN NoRating
  ELSE LET history == player.rating_history
           rating_before ==
             DeltaRatingBefore(history, start_game, 1, DEFAULT_RATING * Scale)
           exact == DeltaRatingAfterExact(history, end_game, 1)
           rating_after ==
             IF exact.none
             THEN DeltaRatingAfterNearest(history, end_game, Len(history))
             ELSE exact
       IN  IF rating_after.none THEN NoRating
           ELSE SomeRating(rating_after.value - rating_before)

\* f"{delta:+.1f}" in tenths of a rating point, or "-"
DeltaStr(delta) ==
  IF delta.none THEN [dash |-> TRUE, tenths |-> 0]
  ELSE [dash |-> FALSE, tenths |-> RoundedRating(delta.value)]

DeltaTag(delta) ==
  IF delta.none THEN "delta_neutral"
  ELSE IF delta.value > 0 THEN "delta_positive"
  ELSE IF delta.value < 0 THEN "delta_negative"
  ELSE "delta_neutral"

TreeRow(rank, pl, start_game, end_game) ==
  LET last == LastSnapshot(pl)
      delta == get_rating_delta(pl, start_game, end_game)
  IN  [ rank |-> rank, pname |-> pl.name,
        rating |-> RoundedRating(pl.current_rating),
        delta_str |-> DeltaStr(delta),
        overall |-> pct_to_str(last.overall_win_pct),
        good |-> pct_to_str(last.good_win_pct),
        evil |-> pct_to_str(last.evil_win_pct),
        games_played |-> pl.games_overall,
        tag |-> DeltaTag(delta) ]

\* "start_game, end_game = self.parse_game_range()" raises TypeError when
\* parse_game_range has returned None
refresh_player_table_raises(entry_text) == ~parse_game_range(entry_text).pair

\* the rows refresh_player_table leaves in the Treeview; when it raises, the
\* rows have been deleted and none inserted
refresh_player_table(ps, entry_text) ==
  LET range == parse_game_range(entry_text)
      Shown(n) == ~(ps[n].games_overall < MinGamesShown)
      shown == SelectSeq(SortedByRating(ps, Items(DOMAIN ps)), Shown)
  IN  IF ~range.pair THEN <<>>
      ELSE [rank \in 1..Len(shown) |->
              TreeRow(rank, ps[shown[rank]], range.start_game, range.end_game)]

\* ------------------------------------------------------------ inputs
RECURSIVE SeqsUpTo(_, _)
SeqsUpTo(S, n) ==
  IF n = 0 THEN {<<>>}
  ELSE LET shorter == SeqsUpTo(S, n - 1)
       IN  shorter \cup {Append(s, x) : s \in {t \in shorter : Len(t) = n - 1}, x \in S}

\* what parse_team_input returns for the two text boxes
PairsUpTo(lines) ==
  {pr \in SeqsUpTo(Names, lines) \X SeqsUpTo(Names, lines) :
     Len(pr[1]) + Len(pr[2]) <= lines}
RosterPairs == PairsUpTo(MaxLines)
ShortPairs == PairsUpTo(MaxLinesRaising)

Selections == 0..2     \* IntVar of a radio group: 0 = nothing selected

\* <<game_mode, story_teller, date_str>> of a submission: the game mode left
\* at game_modes[0], no story teller typed, one reading of the clock
FormExtras == {<<"Trouble Brewing", "", "t1">>}

\* the guard without the winner selection
ValidSelection_EvilOnly(evil_sel, winner_sel) == evil_sel \in {1, 2}

ValidSelection(evil_sel, winner_sel) ==
  evil_sel \in {1, 2} /\ winner_sel \in {1, 2}

Stamp(team, team_label) ==
  [i \in 1..Len(team) |-> [name |-> team[i], team |-> team_label]]

\* both rosters stamped with the label of team 1
players_in_game_OneLabel(team1, team2, evil_sel) ==
  LET team1_team == IF evil_sel = 1 THEN "Evil" ELSE "Good"
  IN  Stamp(team1, team1_team) \o Stamp(team2, team1_team)

players_in_game(team1, team2, evil_sel) ==
  LET team1_team == IF evil_sel = 1 THEN "Evil" ELSE "Good"
      team2_team == IF evil_sel = 1 THEN "Good" ELSE "Evil"
  IN  Stamp(team1, team1_team) \o Stamp(team2, team2_team)

winning_team(evil_sel, winner_sel) ==
  LET team1_team == IF evil_sel = 1 THEN "Evil" ELSE "Good"
      team2_team == IF evil_sel = 1 THEN "Good" ELSE "Evil"
  IN  IF winner_sel = 1 THEN team1_team ELSE team2_team

\* ------------------------------------------------------------ roster lines
\* A line of a roster box is a str whose elements are whole words and the
\* separators " ", "+", "_" and "->".  The words typed, each in lower case,
\* with a capital initial, and in upper case:
WordForms ==
  { <<"good", "Good", "GOOD">>, <<"evil", "Evil", "EVIL">>,
    <<"imp", "Imp", "IMP">>, <<"witch", "Witch", "WITCH">>,
    <<"fortune", "Fortune", "FORTUNE">>, <<"teller", "Teller", "TELLER">>,
    <<"pit", "Pit", "PIT">>, <<"hag", "Hag", "HAG">>,
    <<"fang", "Fang", "FANG">>, <<"gu", "Gu", "GU">>,
    <<"trouble", "Trouble", "TROUBLE">>,
    <<"a", "A", "A">>,
    <<"bad", "Bad", "BAD">>,
    <<"behavior", "Behavior", "BEHAVIOR">>,
    <<"binary", "Binary", "BINARY">>,
    <<"brewing", "Brewing", "BREWING">>,
    <<"can", "Can", "CAN">>,
    <<"distrust", "Distrust", "DISTRUST">>,
    <<"everybody", "Everybody", "EVERYBODY">>,
    <<"expert", "Expert", "EXPERT">>,
    <<"faire", "Faire", "FAIRE">>,
    <<"greater", "Greater", "GREATER">>,
    <<"hide", "Hide", "HIDE">>,
    <<"in", "In", "IN">>,
    <<"irrational", "Irrational", "IRRATIONAL">>,
    <<"joy", "Joy", "JOY">>,
    <<"killer", "Killer", "KILLER">>,
    <<"laissez", "Laissez", "LAISSEZ">>,
    <<"leech", "Leech", "LEECH">>,
    <<"legion", "Legion", "LEGION">>,
    <<"mode", "Mode", "MODE">>,
    <<"moon", "Moon", "MOON">>,
    <<"no", "No", "NO">>,
    <<"of", "Of", "OF">>,
    <<"on", "On", "ON">>,
    <<"over", "Over", "OVER">>,
    <<"play", "Play", "PLAY">>,
    <<"rising", "Rising", "RISING">>,
    <<"river", "River", "RIVER">>,
    <<"sects", "Sects", "SECTS">>,
    <<"seek", "Seek", "SEEK">>,
    <<"supernovae", "Supernovae", "SUPERNOVAE">>,
    <<"the", "The", "THE">>,
    <<"trained", "Trained", "TRAINED">>,
    <<"un", "Un", "UN">>,
    <<"violets", "Violets", "VIOLETS">> }

FormsOf(word) ==
  IF \E f \in WordForms : word \in {f[1], f[2], f[3]}
  THEN CHOOSE f \in WordForms : word \in {f[1], f[2], f[3]}
  ELSE <<word, word, word>>

\* str.lower()
lower(str) == [i \in 1..Len(str) |-> FormsOf(str[i])[1]]

\* seg[0].upper() + seg[1:].lower(), which is also str.capitalize()
capitalize(str) ==
  [i \in 1..Len(str) |-> IF i = 1 THEN FormsOf(str[i])[2]
                         ELSE FormsOf(str[i])[1]]

\* sep.join(parts)
RECURSIVE join(_, _)
join(sep, parts) ==
  IF parts = <<>> THEN <<>>
  ELSE IF Len(parts) = 1 THEN parts[1]
  ELSE parts[1] \o <<sep>> \o join(sep, Tail(parts))

\* str.split(): the pieces between runs of blanks
split_blanks(str) ==
  LET NonEmpty(piece) == piece # <<>>
  IN  SelectSeq(split(str, " "), NonEmpty)

PyNone == <<"<None>">>        \* None where a str is expected
Truthy(str) == str # PyNone /\ str # <<>>

_standardize_role(role_part) ==
  IF role_part = <<>> THEN <<>>
  ELSE LET segments == split(role_part, "_")
       IN  join("_", [i \in 1..Len(segments) |-> capitalize(segments[i])])

\* the hint with the end of a start->end pattern kept instead of the start
initial_team_of_hint_End(team_hint) ==
  IF ~Truthy(team_hint) THEN PyNone
  ELSE IF \E i \in 1..Len(team_hint) : team_hint[i] = "->"
       THEN LET pieces == split(team_hint, "->")
            IN  capitalize(pieces[Len(pieces)])
       ELSE capitalize(team_hint)

\* parse_team_input, lines 548-555: only the start of a start->end pattern
\* is stored
initial_team_of_hint(team_hint) ==
  IF ~Truthy(team_hint) THEN PyNone
  ELSE IF \E i \in 1..Len(team_hint) : team_hint[i] = "->"
       THEN capitalize(split(team_hint, "->")[1])
       ELSE capitalize(team_hint)

\* the dict parse_team_input appends for one non-blank line
parse_line(line) ==
  LET parts == split_blanks(strip(line))
      role_str == IF Len(parts) >= 2 THEN parts[2] ELSE <<>>
      team_hint == IF Len(parts) >= 3 THEN parts[3] ELSE PyNone
      raw_roles == IF role_str # <<>> THEN split(role_str, "+") ELSE << <<>> >>
      roles == [i \in 1..Len(raw_roles) |-> _standardize_role(raw_roles[i])]
  IN  [ name |-> parts[1],
        roles |-> roles,
        role |-> IF roles # <<>> THEN roles[Len(roles)] ELSE <<>>,
        initial_team |-> initial_team_of_hint(team_hint) ]

\* EloTrackerApp.parse_team_input on the lines of a text box
parse_team_input(lines) ==
  LET NotBlank(line) == split_blanks(strip(line)) # <<>>
      kept == SelectSeq(lines, NotBlank)
  IN  [i \in 1..Len(kept) |-> parse_line(kept[i])]

\* EditSingleGameWindow.parse_team_input
edit_parse_team_input(lines) ==
  LET NotBlank(line) == split_blanks(strip(line)) # <<>>
      kept == SelectSeq(lines, NotBlank)
  IN  [i \in 1..Len(kept) |-> parse_line(kept[i])]

\* the loops "for p in team1" and "for p in team2" of submit_game and of
\* save_changes, on the dicts of parse_team_input; a team label is the str
\* of one word
StampParsed(team, team_label) ==
  [i \in 1..Len(team) |->
     [ name |-> team[i].name, roles |-> team[i].roles, role |-> team[i].role,
       initial_team |-> IF ~Truthy(team[i].initial_team) THEN <<team_label>>
                        ELSE team[i].initial_team,
       team |-> <<team_label>> ]]

\* players_in_game and winning_team of the record, with every field
parsed_game(team1, team2, evil_sel, winner_sel) ==
  LET team1_team == IF evil_sel = 1 THEN "Evil" ELSE "Good"
      team2_team == IF evil_sel = 1 THEN "Good" ELSE "Evil"
  IN  [ players |-> StampParsed(team1, team1_team)
                      \o StampParsed(team2, team2_team),
        winning_team |-> <<winning_team(evil_sel, winner_sel)>> ]

\* ------------------------------------------------------------ actions
Idle == [kind |-> "idle", evil_sel |-> 0, winner_sel |-> 0, m |-> 0, n1 |-> 0]

\* no Edit Game Log window is open
Windows == 1..MaxWindows
NoWindows == [w \in Windows |-> [open |-> FALSE, rows |-> <<>>]]

\* no function has been called
NoCall == [fn |-> "none"]

Init ==
  /\ game_log = <<>>
  /\ players = EmptyPlayers
  /\ next_game_id = 1
  /\ saved_players = EmptyPlayers
  /\ saved_game_log = <<>>
  /\ tree = <<>>
  /\ op = Idle
  /\ game_range_entry = <<>>
  /\ listbox = NoWindows
  /\ call = NoCall

\* EloTrackerApp.__init__: the application is started on the saved files
Startup ==
  /\ op = Idle
  /\ game_log' = saved_game_log
  /\ players' = recalc_all(load_players(saved_players), saved_game_log)
  /\ next_game_id' = MaxId(saved_game_log) + 1
  /\ tree' = refresh_player_table(players', <<>>)
  /\ op' = [Idle EXCEPT !.kind = "startup"]
  /\ game_range_entry' = <<>>
  /\ listbox' = NoWindows
  /\ UNCHANGED <<saved_players, saved_game_log, call>>

\* the record submit_game builds; extras = <<game_mode, story_teller, date_str>>
game_record(game_id, team1, team2, evil_sel, winner_sel, extras) ==
  [ game_id |-> game_id,
    date |-> extras[3],
    players |-> players_in_game(team1, team2, evil_sel),
    winning_team |-> winning_team(evil_sel, winner_sel),
    game_mode |-> extras[1],
    story_teller |-> extras[2] ]

submit_game(team1, team2, evil_sel, winner_sel, extras) ==
  /\ op' = [kind |-> "submit", evil_sel |-> evil_sel,
            winner_sel |-> winner_sel, m |-> next_game_id, n1 |-> Len(team1)]
  /\ UNCHANGED <<game_range_entry, listbox, call>>
  /\ IF ~ValidSelection(evil_sel, winner_sel)
     THEN UNCHANGED <<game_log, players, next_game_id,
                      saved_players, saved_game_log, tree>>
     ELSE /\ next_game_id' = next_game_id + 1
          /\ game_log' = Append(game_log,
                game_record(next_game_id, team1, team2, evil_sel, winner_sel,
                            extras))
          /\ players' = recalc_all(players, game_log')
          /\ tree' = refresh_player_table(players', game_range_entry)
          /\ IF refresh_player_table_raises(game_range_entry)
             THEN UNCHANGED <<saved_players, saved_game_log>>
             ELSE /\ saved_players' = save_players(players')
                  /\ saved_game_log' = game_log'

\* the rosters typed do not matter to a rejected submission: one pair stands
\* for all of them there
InputPairs(Pairs, evil_sel, winner_sel) ==
  IF ValidSelection(evil_sel, winner_sel) THEN Pairs
  ELSE {<<<<>>, <<>>>>}

SubmitGameOf(Pairs, Extras, max_len, max_id) ==
  /\ op = Idle
  /\ Len(game_log) < max_len
  /\ next_game_id <= max_id
  /\ \E evil_sel \in Selections, winner_sel \in Selections :
       \E pr \in InputPairs(Pairs, evil_sel, winner_sel), extras \in Extras :
         submit_game(pr[1], pr[2], evil_sel, winner_sel, extras)

SubmitGame == SubmitGameOf(RosterPairs, FormExtras, MaxGames, MaxGameId)

\* save_changes also writing the game mode the main form resets to
save_changes_ResetsGameMode(idx, team1, team2, evil_sel, winner_sel) ==
  LET game == SortedGames(game_log)[idx] IN
  /\ op' = [kind |-> "edit", evil_sel |-> evil_sel,
            winner_sel |-> winner_sel, m |-> game.game_id, n1 |-> Len(team1)]
  /\ UNCHANGED <<game_range_entry, listbox, call>>
  /\ IF ~ValidSelection(evil_sel, winner_sel)
     THEN UNCHANGED <<game_log, players, next_game_id,
                      saved_players, saved_game_log, tree>>
     ELSE /\ game_log' = [i \in 1..Len(game_log) |->
                         IF game_log[i] = game
                         THEN [game EXCEPT
                                 !.players = players_in_game(team1, team2, evil_sel),
                                 !.winning_team = winning_team(evil_sel, winner_sel),
                                 !.game_mode = "Trouble Brewing"]
                         ELSE game_log[i]]
          /\ players' = recalc_all(players, game_log')
          /\ saved_players' = save_players(players')
          /\ saved_game_log' = game_log'
          /\ UNCHANGED <<next_game_id, tree>>

\* edit_selected on listbox row idx, then save_changes in the window it opens
save_changes(idx, team1, team2, evil_sel, winner_sel) ==
  LET game == SortedGames(game_log)[idx] IN
  /\ op' = [kind |-> "edit", evil_sel |-> evil_sel,
            winner_sel |-> winner_sel, m |-> game.game_id, n1 |-> Len(team1)]
  /\ UNCHANGED <<game_range_entry, listbox, call>>
  /\ IF ~ValidSelection(evil_sel, winner_sel)
     THEN UNCHANGED <<game_log, players, next_game_id,
                      saved_players, saved_game_log, tree>>
     ELSE /\ game_log' = [i \in 1..Len(game_log) |->
                         IF game_log[i] = game
                         THEN [game EXCEPT
                                 !.players = players_in_game(team1, team2, evil_sel),
                                 !.winning_team = winning_team(evil_sel, winner_sel)]
                         ELSE game_log[i]]
          /\ players' = recalc_all(players, game_log')
          /\ saved_players' = save_players(players')
          /\ saved_game_log' = game_log'
          /\ UNCHANGED <<next_game_id, tree>>

SaveChangesOf(Pairs, Rows) ==
  /\ op = Idle
  /\ \E idx \in Rows \cap (1..Len(game_log)) :
       \E evil_sel \in Selections, winner_sel \in Selections :
         \E pr \in InputPairs(Pairs, evil_sel, winner_sel) :
           save_changes(idx, pr[1], pr[2], evil_sel, winner_sel)

SaveChanges == SaveChangesOf(RosterPairs, 1..MaxGames)

delete_selected(idx, confirm) ==
  LET game_to_delete == SortedGames(game_log)[idx]
      Keep(g) == g.game_id # game_to_delete.game_id
  IN  /\ op' = [kind |-> IF confirm THEN "delete" ELSE "delete_declined",
                evil_sel |-> 0, winner_sel |-> 0, m |-> game_to_delete.game_id,
                n1 |-> 0]
      /\ UNCHANGED <<game_range_entry, listbox, call>>
      /\ IF ~confirm
         THEN UNCHANGED <<game_log, players, next_game_id,
                          saved_players, saved_game_log, tree>>
         ELSE /\ game_log' = SelectSeq(game_log, Keep)
              /\ players' = recalc_all(players, game_log')
              /\ saved_players' = save_players(players')
              /\ saved_game_log' = game_log'
              /\ UNCHANGED <<next_game_id, tree>>

DeleteSelectedOf(Rows) ==
  /\ op = Idle
  /\ \E idx \in Rows \cap (1..Len(game_log)), confirm \in BOOLEAN :
       delete_selected(idx, confirm)

DeleteSelected == DeleteSelectedOf(1..MaxGames)

\* root.mainloop(): the handler has returned, the application waits for the
\* next event
Mainloop ==
  /\ op # Idle
  /\ op' = Idle
  /\ UNCHANGED <<game_log, players, next_game_id, saved_players,
                 saved_game_log, tree, game_range_entry, listbox, call>>

\* ---- a replay that raises ------------------------------------------------
\* recalc_all raising in expected_score of the k-th game in replay order
\* (10 ** x raises OverflowError once the team averages are more than about
\* 123,300 points apart): the players are reset, the games before k are
\* replayed, the players of game k exist.  The Tk callback wrapper reports
\* the exception and the application goes on.
\* the files hold what the memory holds: nothing has raised since the last
\* save_data or load_data
InSync == saved_game_log = game_log /\ saved_players = save_players(players)

recalc_all_raises(ps, log, k) ==
  EnsurePlayers(ReplayGames(ResetAll(ps), SubSeq(SortedGames(log), 1, k - 1), 1),
                SortedGames(log)[k])

\* the submission with save_data called before recalc_all
SubmitGameRaises_SaveFirst ==
  /\ op = Idle /\ InSync
  /\ Len(game_log) < MaxGames
  /\ next_game_id <= MaxGameId
  /\ \E evil_sel \in {1, 2}, winner_sel \in {1, 2}, pr \in ShortPairs,
        extras \in FormExtras :
       /\ next_game_id' = next_game_id + 1
       /\ game_log' = Append(game_log,
             game_record(next_game_id, pr[1], pr[2], evil_sel, winner_sel,
                         extras))
       /\ saved_players' = save_players(players)
       /\ saved_game_log' = game_log'
       /\ \E k \in 1..Len(game_log') :
            players' = recalc_all_raises(players, game_log', k)
       /\ op' = [kind |-> "submit_raised", evil_sel |-> evil_sel,
                 winner_sel |-> winner_sel, m |-> next_game_id,
                 n1 |-> Len(pr[1])]
       /\ UNCHANGED <<tree, game_range_entry, listbox, call>>

SubmitGameRaises ==
  /\ op = Idle /\ InSync
  /\ Len(game_log) < MaxGames
  /\ next_game_id <= MaxGameId
  /\ \E evil_sel \in {1, 2}, winner_sel \in {1, 2}, pr \in ShortPairs,
        extras \in FormExtras :
       /\ next_game_id' = next_game_id + 1
       /\ game_log' = Append(game_log,
             game_record(next_game_id, pr[1], pr[2], evil_sel, winner_sel,
                         extras))
       /\ \E k \in 1..Len(game_log') :
            players' = recalc_all_raises(players, game_log', k)
       /\ op' = [kind |-> "submit_raised", evil_sel |-> evil_sel,
                 winner_sel |-> winner_sel, m |-> next_game_id,
                 n1 |-> Len(pr[1])]
       /\ UNCHANGED <<saved_players, saved_game_log, tree,
                      game_range_entry, listbox, call>>

SaveChangesRaises ==
  /\ op = Idle /\ InSync
  /\ \E idx \in 1..Len(game_log), evil_sel \in {1, 2}, winner_sel \in {1, 2},
        pr \in ShortPairs :
       LET game == SortedGames(game_log)[idx] IN
       /\ game_log' = [i \in 1..Len(game_log) |->
                         IF game_log[i] = game
                         THEN [game EXCEPT
                                 !.players = players_in_game(pr[1], pr[2], evil_sel),
                                 !.winning_team = winning_team(evil_sel, winner_sel)]
                         ELSE game_log[i]]
       /\ \E k \in 1..Len(game_log') :
            players' = recalc_all_raises(players, game_log', k)
       /\ op' = [kind |-> "edit_raised", evil_sel |-> evil_sel,
                 winner_sel |-> winner_sel, m |-> game.game_id,
                 n1 |-> Len(pr[1])]
       /\ UNCHANGED <<next_game_id, saved_players, saved_game_log, tree,
                          game_range_entry, listbox, call>>

DeleteSelectedRaises ==
  /\ op = Idle /\ InSync
  /\ \E idx \in 1..Len(game_log) :
       LET game_to_delete == SortedGames(game_log)[idx]
           Keep(g) == g.game_id # game_to_delete.game_id
       IN  /\ game_log' = SelectSeq(game_log, Keep)
           /\ \E k \in 1..Len(game_log') :
                players' = recalc_all_raises(players, game_log', k)
           /\ op' = [kind |-> "delete_raised", evil_sel |-> 0, winner_sel |-> 0,
                     m |-> game_to_delete.game_id, n1 |-> 0]
           /\ UNCHANGED <<next_game_id, saved_players, saved_game_log, tree,
                          game_range_entry, listbox, call>>

Next == SubmitGame \/ SaveChanges \/ DeleteSelected \/ Startup \/ Mainloop

Spec == Init /\ [][Next]_vars

\* The sessions in which submissions have at most MaxLinesRaising lines, a
\* replay may raise, and the application is started again after a replay
\* has raised.
SubmitGameShort ==
  InSync /\ SubmitGameOf(ShortPairs, FormExtras, MaxGames, MaxGameId)
SaveChangesShort == InSync /\ SaveChangesOf(ShortPairs, 1..MaxGames)
DeleteSelectedInSync == InSync /\ DeleteSelected

NextRaising ==
  \/ SubmitGameShort \/ SaveChangesShort \/ DeleteSelectedInSync
  \/ Startup \/ Mainloop
  \/ SubmitGameRaises \/ SaveChangesRaises \/ DeleteSelectedRaises

SpecRaising == Init /\ [][NextRaising]_vars

\* ---- a session on the history of earlier sessions -------------------------
\* gamelog.json as earlier sessions left it: five games of A against B, game
\* 4 deleted; players.json as save_data wrote it with that history
LoadedHistory ==
  << game_record(1, <<"A">>, <<"B">>, 2, 1, <<"Trouble Brewing", "", "t1">>),
     game_record(2, <<"A">>, <<"B">>, 2, 2, <<"Trouble Brewing", "ST", "t2">>),
     game_record(3, <<"B">>, <<"A">>, 2, 2, <<"Bad Moon Rising", "ST", "t3">>),
     game_record(5, <<"A">>, <<"B">>, 1, 2, <<"Sects & Violets", "", "t5">>),
     game_record(6, <<"A">>, <<"B">>, 2, 1, <<"Trouble Brewing", "ST", "t6">>) >>

LoadedPairs == {<<<<"A">>, <<"B">>>>, <<<<"B">>, <<>>>>}
LoadedExtras == {<<"Bad Moon Rising", "ST", "t9">>}

InitLoaded ==
  /\ saved_game_log = LoadedHistory
  /\ saved_players = save_players(recalc_all(EmptyPlayers, LoadedHistory))
  /\ game_log = saved_game_log
  /\ players = recalc_all(load_players(saved_players), saved_game_log)
  /\ next_game_id = MaxId(saved_game_log) + 1
  /\ tree = refresh_player_table(players, <<>>)
  /\ op = Idle
  /\ game_range_entry = <<>>
  /\ listbox = NoWindows
  /\ call = NoCall

SubmitGameLoaded ==
  SubmitGameOf(LoadedPairs, LoadedExtras, MaxLoadedGames, MaxLoadedGameId)
SaveChangesLoaded == SaveChangesOf(LoadedPairs, 1..MaxRow)
DeleteSelectedLoaded ==
  Len(game_log) > MinLoadedGames /\ DeleteSelectedOf(1..MaxRow)

NextLoaded ==
  \/ SubmitGameLoaded \/ SaveChangesLoaded \/ DeleteSelectedLoaded
  \/ Startup \/ Mainloop

SpecLoaded == InitLoaded /\ [][NextLoaded]_vars

\* ---- a session in which the game range is typed ---------------------------
\* the keys pressed in the game range entry
RangeChars == {"0", "3", "4", "-", " ", "x"}

\* the text of the entry after one key: a character appended, the last one
\* removed, or the text as it was
AfterKey(text) ==
  {text}
  \cup (IF Len(text) < MaxRangeLen
        THEN {Append(text, c) : c \in RangeChars} ELSE {})
  \cup (IF text # <<>> THEN {SubSeq(text, 1, Len(text) - 1)} ELSE {})

\* <KeyRelease> bound on game_range_entry: refresh_player_table
RangeKeyRelease ==
  /\ op = Idle
  /\ \E text \in AfterKey(game_range_entry) :
       /\ game_range_entry' = text
       /\ tree' = refresh_player_table(players, text)
  /\ op' = [Idle EXCEPT !.kind = "range_key"]
  /\ UNCHANGED <<game_log, players, next_game_id, saved_players,
                 saved_game_log, listbox, call>>

\* the Clear Range button
clear_game_range ==
  /\ op = Idle
  /\ game_range_entry' = <<>>
  /\ tree' = refresh_player_table(players, <<>>)
  /\ op' = [Idle EXCEPT !.kind = "clear_range"]
  /\ UNCHANGED <<game_log, players, next_game_id, saved_players,
                 saved_game_log, listbox, call>>

NextRange ==
  RangeKeyRelease \/ clear_game_range \/ SubmitGameLoaded \/ Mainloop

SpecRange == InitLoaded /\ [][NextRange]_vars

\* ---- the functions of the program, called on their own ------------------
\* Each action calls one function on arguments drawn from the sets below and
\* leaves the arguments and the result in call; the globals are not touched.
Globals == <<game_log, players, next_game_id, saved_players, saved_game_log,
             tree, op, game_range_entry, listbox>>

Return ==
  /\ call # NoCall
  /\ call' = NoCall
  /\ UNCHANGED Globals

\* the role and hint tokens typed after a name
RoleTexts == { <<"imp">>, <<"witch", "+", "fortune", "_", "TELLER">> }
HintTexts == { <<"EVIL">>, <<"good", "->", "evil">>, <<"->", "evil">> }

\* the lines typed for a player: the name, the name and a role, or the name,
\* a role and a hint
LinesOf(name) ==
  {<<name>>}
  \cup {<<name, " ">> \o r : r \in RoleTexts}
  \cup {<<name, " ">> \o r \o <<" ">> \o h : r \in RoleTexts, h \in HintTexts}

\* the lines of the first text box and of the second
Box1Texts == SeqsUpTo(LinesOf("A") \cup LinesOf("B"), MaxBoxLines)
Box2Texts == SeqsUpTo(LinesOf("C"), MaxBoxLines - 1)

\* submit_game up to the record it builds (lines 568-614): the dicts parsed
\* from the two boxes and the players and winning team assembled from them
FormAssembled ==
  /\ call = NoCall
  /\ \E text_team1 \in Box1Texts, text_team2 \in Box2Texts,
        evil_sel \in {1, 2}, winner_sel \in {1, 2} :
       LET team1 == parse_team_input(text_team1)
           team2 == parse_team_input(text_team2)
       IN  call' = [ fn |-> "submit_game",
                     text_team1 |-> text_team1, text_team2 |-> text_team2,
                     evil_sel |-> evil_sel, winner_sel |-> winner_sel,
                     team1 |-> team1, team2 |-> team2,
                     game |-> parsed_game(team1, team2, evil_sel, winner_sel) ]
  /\ UNCHANGED Globals

\* ---- the deltas of a game in binary floating point
\* The replay computes exp_good, exp_evil and the two deltas in IEEE doubles:
\* every operation returns the double nearest the exact result, ties to the
\* even mantissa.  Here a float has MantissaBits bits of mantissa (a double
\* has 53) and is held as an integer number of 2^-FracBits.
FracBits == 16

RECURSIVE Pow2(_)
Pow2(n) == IF n = 0 THEN 1 ELSE 2 * Pow2(n - 1)

RECURSIVE BitLength(_)
BitLength(x) == IF x = 0 THEN 0 ELSE 1 + BitLength(x \div 2)

\* the float nearest the integer x >= 0
RoundToMantissa(x) ==
  IF x < Pow2(MantissaBits) THEN x
  ELSE LET unit == Pow2(BitLength(x) - MantissaBits)
           q == x \div unit
           rem == x % unit
       IN  unit * (IF 2 * rem > unit \/ (2 * rem = unit /\ q % 2 = 1)
                   THEN q + 1 ELSE q)

\* the float nearest x
Float(x) == IF x < 0 THEN 0 - RoundToMantissa(0 - x) ELSE RoundToMantissa(x)

FloatOne == Pow2(FracBits)

\* expected_score as a float: the float nearest the value of the curve
float_expected_score(ratingA, ratingB) ==
  Float((expected_score(ratingA, ratingB) * FloatOne) \div Scale)

\* recalc_all, lines 227-241: exp_good, exp_evil and the delta of a Good and
\* of an Evil player of the game
game_deltas(avg_good, avg_evil, winner) ==
  LET exp_good == float_expected_score(avg_good, avg_evil)
      exp_evil == Float(FloatOne - exp_good)
      result_good == IF winner = "Good" THEN FloatOne ELSE 0
      result_evil == IF winner = "Good" THEN 0 ELSE FloatOne
  IN  [ exp_good |-> exp_good, exp_evil |-> exp_evil,
        delta_good |-> Float(ELO_K_FACTOR * Float(result_good - exp_good)),
        delta_evil |-> Float(ELO_K_FACTOR * Float(result_evil - exp_evil)) ]

\* the team averages of a game: Good at 1500, Evil up to 8 * MaxGapSteps
\* points below or above
GapSteps == (0 - MaxGapSteps)..MaxGapSteps

DeltasComputed ==
  /\ call = NoCall
  /\ \E k \in GapSteps, winner \in {"Good", "Evil"} :
       LET avg_good == DEFAULT_RATING * Scale
           avg_evil == DEFAULT_RATING * Scale + k * (TableStep \div 2) * Scale
       IN  call' = [ fn |-> "recalc_all", avg_good |-> avg_good,
                     avg_evil |-> avg_evil, winning_team |-> winner,
                     deltas |-> game_deltas(avg_good, avg_evil, winner) ]
  /\ UNCHANGED Globals

\* ---- the edit window
\* the line EditSingleGameWindow.__init__ writes for a player of the game
edit_window_line(p) ==
  LET role_display == join("+", p.roles)
      initial == p.initial_team
      final_team == p.team
      team_hint ==
        IF Truthy(initial)
        THEN IF Truthy(final_team) /\ initial # final_team
             THEN <<" ">> \o initial \o <<"->">> \o final_team
             ELSE <<" ">> \o initial
        ELSE <<>>
  IN  p.name \o <<" ">> \o role_display \o team_hint

\* the window as __init__ leaves it: the lines of the two text boxes and the
\* two radio groups
EditSingleGameWindow(game) ==
  LET team_assignment == IF game.players # <<>> THEN game.players[1].team
                         ELSE <<"Good">>
      InTeam1(p) == p.team = team_assignment
      InTeam2(p) == p.team # team_assignment
      team1 == SelectSeq(game.players, InTeam1)
      team2 == SelectSeq(game.players, InTeam2)
  IN  [ text_team1 |-> [i \in 1..Len(team1) |-> edit_window_line(team1[i])],
        text_team2 |-> [i \in 1..Len(team2) |-> edit_window_line(team2[i])],
        evil_var |-> IF team_assignment = <<"Evil">> THEN 1 ELSE 2,
        winner_var |-> IF game.winning_team = team_assignment THEN 1 ELSE 2 ]

\* the players and winning team save_changes writes into the game from the
\* window (lines 1108-1137)
saved_game(window) ==
  parsed_game(edit_parse_team_input(window.text_team1),
              edit_parse_team_input(window.text_team2),
              window.evil_var, window.winner_var)

\* a game built by submit_game is opened in the edit window and saved with
\* nothing changed
EditedUnchanged ==
  /\ call = NoCall
  /\ \E text_team1 \in Box1Texts, text_team2 \in Box2Texts,
        evil_sel \in {1, 2}, winner_sel \in {1, 2} :
       LET game == parsed_game(parse_team_input(text_team1),
                               parse_team_input(text_team2),
                               evil_sel, winner_sel)
           window == EditSingleGameWindow(game)
       IN  call' = [ fn |-> "save_changes", game |-> game,
                     window |-> window, saved |-> saved_game(window) ]
  /\ UNCHANGED Globals

\* ---- analytics.py / storyteller_analytics.py: update_character_stats
\* the dict with no key
EmptyDict == [k \in {} |-> 0]

\* role_teams after the loop over the players i.. of one game: role -> the
\* teams of the players with that role, the players without a role skipped
RECURSIVE role_teams(_, _, _)
role_teams(game_players, i, teams_of) ==
  IF i > Len(game_players) THEN teams_of
  ELSE LET role == game_players[i].role
           team == game_players[i].team
       IN  IF role = "" THEN role_teams(game_players, i + 1, teams_of)
           ELSE role_teams(game_players, i + 1,
                  IF role \in DOMAIN teams_of
                  THEN [teams_of EXCEPT ![role] = Append(@, team)]
                  ELSE teams_of @@ (role :> <<team>>))

\* the update of one game with a role counted once for each of its holders
char_stats_of_game_PerHolder(char_stats, game) ==
  LET teams_of == role_teams(game.players, 1, EmptyDict)
  IN  [role \in DOMAIN char_stats \cup DOMAIN teams_of |->
         LET entry == IF role \in DOMAIN char_stats THEN char_stats[role]
                      ELSE [games |-> 0, wins |-> 0]
         IN  IF role \notin DOMAIN teams_of THEN entry
             ELSE [ games |-> entry.games + Len(teams_of[role]),
                    wins |-> entry.wins
                      + Cardinality({j \in 1..Len(teams_of[role]) :
                                       teams_of[role][j] = game.winning_team}) ]]

\* "for role, teams in role_teams.items()": one game more for each role of
\* the game, one win more when winning_team is among the teams of its holders
char_stats_of_game(char_stats, game) ==
  LET teams_of == role_teams(game.players, 1, EmptyDict)
  IN  [role \in DOMAIN char_stats \cup DOMAIN teams_of |->
         LET entry == IF role \in DOMAIN char_stats THEN char_stats[role]
                      ELSE [games |-> 0, wins |-> 0]
         IN  IF role \notin DOMAIN teams_of THEN entry
             ELSE [ games |-> entry.games + 1,
                    wins |-> entry.wins
                      + Count(\E j \in 1..Len(teams_of[role]) :
                                teams_of[role][j] = game.winning_team) ]]

\* char_stats after the loop over the games i.. of the filtered list
RECURSIVE update_character_stats(_, _, _)
update_character_stats(games, i, char_stats) ==
  IF i > Len(games) THEN char_stats
  ELSE update_character_stats(games, i + 1,
                              char_stats_of_game(char_stats, games[i]))

\* the players of a game of the log as the dashboards read them: the final
\* role ("" without one) and the team
StatPlayers ==
  [role : {"Legion", "Imp", ""}, team : {"Good", "Evil"}]
StatGames ==
  [players : SeqsUpTo(StatPlayers, MaxStatPlayers),
   winning_team : {"Good", "Evil"}]

CharacterStatsUpdated ==
  /\ call = NoCall
  /\ \E games \in SeqsUpTo(StatGames, MaxStatGames) :
       call' = [ fn |-> "update_character_stats", games |-> games,
                 char_stats |-> update_character_stats(games, 1, EmptyDict) ]
  /\ UNCHANGED Globals

\* ---- botc_config.py: character role types
\* str.replace(old, new) for one-element old and new
replace(str, old, new) ==
  [i \in 1..Len(str) |-> IF str[i] = old THEN new ELSE str[i]]

Contains(str, element) == \E i \in 1..Len(str) : str[i] = element

\* the entries of CHARACTER_ROLE_TYPES for the characters named below
CHARACTER_ROLE_TYPES ==
  (<<"fang", "_", "gu">> :> "Demons") @@
  (<<"imp">> :> "Demons") @@
  (<<"pit", "-", "hag">> :> "Minions") @@
  (<<"witch">> :> "Minions") @@
  (<<"fortune", "_", "teller">> :> "Townsfolk")

\* name.replace(" ", "_").lower().strip(): after the replacement the str has
\* no blank left to strip
normalize_character_name(name) ==
  IF name = <<>> THEN <<>>
  ELSE strip(lower(replace(name, " ", "_")))

\* what a call returns: a value, or the exception raised and the name its
\* message quotes
Returned(value) == [raised |-> "", value |-> value, quoted |-> <<>>]
Raised(exception, quoted) ==
  [raised |-> exception, value |-> "", quoted |-> quoted]

\* an unknown name taken for a Townsfolk
get_character_role_type_Default(character_name) ==
  LET normalized == normalize_character_name(character_name)
      hyphens == replace(normalized, "-", "_")
      underscores == replace(normalized, "_", "-")
  IN  IF normalized \in DOMAIN CHARACTER_ROLE_TYPES
      THEN Returned(CHARACTER_ROLE_TYPES[normalized])
      ELSE IF Contains(normalized, "-") /\ hyphens \in DOMAIN CHARACTER_ROLE_TYPES
      THEN Returned(CHARACTER_ROLE_TYPES[hyphens])
      ELSE IF /\ Contains(normalized, "_")
              /\ underscores \in DOMAIN CHARACTER_ROLE_TYPES
      THEN Returned(CHARACTER_ROLE_TYPES[underscores])
      ELSE Returned("Townsfolk")

get_character_role_type(character_name) ==
  LET normalized == normalize_character_name(character_name)
      hyphens == replace(normalized, "-", "_")
      underscores == replace(normalized, "_", "-")
  IN  IF normalized \in DOMAIN CHARACTER_ROLE_TYPES
      THEN Returned(CHARACTER_ROLE_TYPES[normalized])
      ELSE IF Contains(normalized, "-") /\ hyphens \in DOMAIN CHARACTER_ROLE_TYPES
      THEN Returned(CHARACTER_ROLE_TYPES[hyphens])
      ELSE IF /\ Contains(normalized, "_")
              /\ underscores \in DOMAIN CHARACTER_ROLE_TYPES
      THEN Returned(CHARACTER_ROLE_TYPES[underscores])
      ELSE Raised("KeyError", character_name)

\* the character names looked up: one word, or two words with a separator,
\* in the three spellings of a word; a name with a blank in front; no name
CharacterWords == {"imp", "witch", "pit", "hag", "fang", "gu", "good"}
Spellings(word) == {FormsOf(word)[1], FormsOf(word)[2], FormsOf(word)[3]}
CharacterNames ==
  {<<>>}
  \cup {<<w>> : w \in UNION {Spellings(v) : v \in CharacterWords}}
  \cup {<<" ", w>> : w \in {"imp", "Imp"}}
  \cup {<<v, sep, w>> : v \in UNION {Spellings(u) : u \in {"pit", "fang"}},
                        sep \in {" ", "_", "-"},
                        w \in UNION {Spellings(u) : u \in {"hag", "gu"}}}

RoleTypeLookedUp ==
  /\ call = NoCall
  /\ \E character_name \in CharacterNames :
       call' = [ fn |-> "get_character_role_type",
                 character_name |-> character_name,
                 result |-> get_character_role_type(character_name) ]
  /\ UNCHANGED Globals

\* ---- script categories
\* NORMAL_SCRIPTS of botc_config.py
NORMAL_SCRIPTS ==
  { <<"trouble", " ", "brewing">>,
    <<"bad", " ", "moon", " ", "rising">>,
    <<"sects", " ", "&", " ", "violets">>,
    <<"trouble", " ", "in", " ", "violets">>,
    <<"trouble", " ", "in", " ", "legion">>,
    <<"hide", " ", "&", " ", "seek">>,
    <<"trouble", " ", "brewing", " ", "on", " ", "expert", " ", "mode">>,
    <<"trained", " ", "killer">>,
    <<"irrational", " ", "behavior">>,
    <<"binary", " ", "supernovae">>,
    <<"everybody", " ", "can", " ", "play">> }

\* NORMAL_SCRIPTS of analytics.py
analytics_NORMAL_SCRIPTS ==
  { <<"trouble", " ", "brewing">>,
    <<"bad", " ", "moon", " ", "rising">>,
    <<"sects", " ", "&", " ", "violets">>,
    <<"trouble", " ", "in", " ", "violets">>,
    <<"trouble", " ", "in", " ", "legion">>,
    <<"hide", " ", "&", " ", "seek">>,
    <<"trouble", " ", "brewing", " ", "on", " ", "expert", " ", "mode">>,
    <<"trained", " ", "killer">>,
    <<"irrational", " ", "behavior">>,
    <<"binary", " ", "supernovae">> }

\* COMMON_SCRIPTS of botc_config.py, the game modes of the submission form
COMMON_SCRIPTS ==
  { <<"Trouble", " ", "Brewing">>,
    <<"Bad", " ", "Moon", " ", "Rising">>,
    <<"Sects", " ", "&", " ", "Violets">>,
    <<"Trouble", " ", "in", " ", "Violets">>,
    <<"No", " ", "Greater", " ", "Joy">>,
    <<"Over", " ", "the", " ", "River">>,
    <<"Laissez", " ", "un", " ", "Faire">>,
    <<"Trouble", " ", "in", " ", "Legion">>,
    <<"Hide", " ", "&", " ", "Seek">>,
    <<"Trouble", " ", "Brewing", " ", "on", " ", "Expert", " ", "Mode">>,
    <<"Trained", " ", "Killer">>,
    <<"Irrational", " ", "Behavior">>,
    <<"Binary", " ", "Supernovae">>,
    <<"A", " ", "Leech", " ", "of", " ", "Distrust">>,
    <<"Everybody", " ", "Can", " ", "Play">> }

\* (name or "").strip().lower(), the same text in both files
normalize_script_name(name) ==
  lower(strip(IF Truthy(name) THEN name ELSE <<>>))

\* botc_config.categorize_script, the one storyteller_analytics.py imports
categorize_script(name) ==
  IF normalize_script_name(name) \in NORMAL_SCRIPTS
  THEN "Normal" ELSE "Teensyville"

\* analytics.categorize_script
analytics_categorize_script(name) ==
  IF normalize_script_name(name) \in analytics_NORMAL_SCRIPTS
  THEN "Normal" ELSE "Teensyville"

\* the game_mode of a match of the log: a game mode of the form as it is, in
\* lower case, or with a blank at either end; the empty str; a missing one
ScriptNames ==
  COMMON_SCRIPTS
  \cup {lower(name) : name \in COMMON_SCRIPTS}
  \cup {<<" ">> \o name \o <<" ">> : name \in COMMON_SCRIPTS}
  \cup {<<>>, PyNone}

\* the category of a match in the two dashboards
ScriptCategorized ==
  /\ call = NoCall
  /\ \E name \in ScriptNames :
       call' = [ fn |-> "categorize_script", name |-> name,
                 analytics |-> analytics_categorize_script(name),
                 storyteller_analytics |-> categorize_script(name) ]
  /\ UNCHANGED Globals

NextCalls ==
  \/ FormAssembled \/ CharacterStatsUpdated \/ RoleTypeLookedUp
  \/ ScriptCategorized \/ EditedUnchanged \/ DeltasComputed \/ Return

SpecCalls == Init /\ [][NextCalls]_vars

\* ---- a session with Edit Game Log windows --------------------------------
\* The windows are not modal: the main window and every Edit Game Log window
\* take events while the others are open.  A listbox row is the game_id its
\* text "Game <id> - <date>" shows.
\* EloTrackerApp.open_edit_window: EditGameWindow.__init__ fills the listbox
\* with one row for each game of the log, least game_id first
open_edit_window(w) ==
  /\ op = Idle
  /\ ~listbox[w].open
  /\ listbox' = [listbox EXCEPT ![w] =
                   [ open |-> TRUE,
                     rows |-> [i \in 1..Len(game_log) |->
                                 SortedGames(game_log)[i].game_id] ]]
  /\ op' = [Idle EXCEPT !.kind = "open_window"]
  /\ UNCHANGED <<game_log, players, next_game_id, saved_players,
                 saved_game_log, tree, game_range_entry, call>>

OpenEditWindow == \E w \in Windows : open_edit_window(w)

\* the event handled in a window: its kind, the game_id shown by the row
\* selected, and the game_id of the game the handler took (0 when
\* sorted(game_log)[idx] raised IndexError)
WindowEvent(kind, selected, m) ==
  [kind |-> kind, evil_sel |-> 0, winner_sel |-> 0, m |-> m, n1 |-> 0,
   selected |-> selected]

\* delete_selected in window w with the row-th row selected
window_delete_selected(w, row, confirm) ==
  IF row > Len(game_log)
  THEN /\ op' = WindowEvent("window_index_error", listbox[w].rows[row], 0)
       /\ UNCHANGED <<game_log, players, next_game_id, saved_players,
                      saved_game_log, tree, game_range_entry, listbox, call>>
  ELSE LET game_to_delete == SortedGames(game_log)[row]
           Keep(g) == g.game_id # game_to_delete.game_id
       IN  /\ op' = WindowEvent(IF confirm THEN "window_delete"
                                ELSE "window_delete_declined",
                                listbox[w].rows[row], game_to_delete.game_id)
           /\ IF ~confirm
              THEN UNCHANGED <<game_log, players, next_game_id, saved_players,
                               saved_game_log, tree, game_range_entry,
                               listbox, call>>
              ELSE /\ game_log' = SelectSeq(game_log, Keep)
                   /\ players' = recalc_all(players, game_log')
                   /\ saved_players' = save_players(players')
                   /\ saved_game_log' = game_log'
                   /\ listbox' = [listbox EXCEPT ![w] = NoWindows[w]]
                   /\ UNCHANGED <<next_game_id, tree, game_range_entry, call>>

WindowDeleteSelected ==
  /\ op = Idle
  /\ Len(game_log) > MinLoadedGames
  /\ \E w \in Windows, confirm \in BOOLEAN :
       /\ listbox[w].open
       /\ \E row \in 1..Len(listbox[w].rows) :
            row <= MaxWindowRow /\ window_delete_selected(w, row, confirm)

\* edit_selected in window w with the row-th row selected, then save_changes
\* in the EditSingleGameWindow it opens
window_save_changes(w, row, team1, team2, evil_sel, winner_sel) ==
  IF row > Len(game_log)
  THEN /\ op' = WindowEvent("window_index_error", listbox[w].rows[row], 0)
       /\ UNCHANGED <<game_log, players, next_game_id, saved_players,
                      saved_game_log, tree, game_range_entry, listbox, call>>
  ELSE LET game == SortedGames(game_log)[row]
       IN  /\ op' = WindowEvent("window_edit", listbox[w].rows[row],
                                game.game_id)
           /\ game_log' = [i \in 1..Len(game_log) |->
                             IF game_log[i] = game
                             THEN [game EXCEPT
                                     !.players = players_in_game(team1, team2, evil_sel),
                                     !.winning_team = winning_team(evil_sel, winner_sel)]
                             ELSE game_log[i]]
           /\ players' = recalc_all(players, game_log')
           /\ saved_players' = save_players(players')
           /\ saved_game_log' = game_log'
           /\ UNCHANGED <<next_game_id, tree, game_range_entry, listbox, call>>

WindowSaveChanges ==
  /\ op = Idle
  /\ \E w \in Windows :
       /\ listbox[w].open
       /\ \E row \in 1..Len(listbox[w].rows) :
            /\ row <= MaxWindowRow
            /\ window_save_changes(w, row, <<"B">>, <<"A">>, 1, 1)

NextWindows ==
  \/ OpenEditWindow \/ WindowDeleteSelected \/ WindowSaveChanges
  \/ SubmitGameLoaded \/ Mainloop

SpecWindows == InitLoaded /\ [][NextWindows]_vars

TypeOK ==
  /\ next_game_id \in 1..(MaxGameId + 1)
  /\ Len(game_log) <= MaxGames
  /\ DOMAIN players \subseteq Names

\* ================================================================ claims
Completed(o) ==
  \/ o.kind = "delete"
  \/ o.kind \in {"submit", "edit"} /\ o.evil_sel \in {1, 2} /\ o.winner_sel \in {1, 2}

\* ---- C1 -----------------------------------------------------------------
\* The from-scratch fold, written without the player mapping: every name
\* starts at DEFAULT_RATING; the matches are taken by least game_id first;
\* the team averages are those of the ratings held before the match; every
\* entry of a name in the match adds the delta of the entry's team.
LeastIdIndex(log) ==
  CHOOSE k \in 1..Len(log) :
    /\ \A j \in 1..Len(log) : log[k].game_id <= log[j].game_id
    /\ \A j \in 1..(k - 1) : log[j].game_id # log[k].game_id

Entries(game, team, n) ==
  Cardinality({i \in 1..Len(game.players) :
                 game.players[i].team = team /\ game.players[i].name = n})

RECURSIVE SumOver(_, _)
SumOver(f, S) ==
  IF S = {} THEN 0
  ELSE LET x == CHOOSE y \in S : TRUE IN f[x] + SumOver(f, S \ {x})

FoldAverage(r, game, team) ==
  LET idx == {i \in 1..Len(game.players) : game.players[i].team = team}
  IN  IF idx = {} THEN DEFAULT_RATING * Scale
      ELSE SumOver([i \in idx |-> r[game.players[i].name]], idx)
             \div Cardinality(idx)

FoldGame(r, game) ==
  LET e_good == expected_score(FoldAverage(r, game, "Good"),
                               FoldAverage(r, game, "Evil"))
      a_good == IF game.winning_team = "Good" THEN Scale ELSE 0
      d_good == ELO_K_FACTOR * (a_good - e_good)
      d_evil == ELO_K_FACTOR * ((Scale - a_good) - (Scale - e_good))
  IN  [n \in DOMAIN r |->
         r[n] + Entries(game, "Good", n) * d_good
              + Entries(game, "Evil", n) * d_evil]

RECURSIVE FoldRatings(_, _)
FoldRatings(r, log) ==
  IF log = <<>> THEN r
  ELSE LET k == LeastIdIndex(log)
       IN  FoldRatings(FoldGame(r, log[k]),
                       SubSeq(log, 1, k - 1) \o SubSeq(log, k + 1, Len(log)))

HistoryNames == UNION {GameNames(game_log[i]) : i \in 1..Len(game_log)}

\* The fold as the claim words it: one delta for every match in which the
\* player appears on a team, however many entries carry the name.
Present(game, team, n) == IF Entries(game, team, n) > 0 THEN 1 ELSE 0

FoldMatch(r, game) ==
  LET e_good == expected_score(FoldAverage(r, game, "Good"),
                               FoldAverage(r, game, "Evil"))
      a_good == IF game.winning_team = "Good" THEN Scale ELSE 0
      d_good == ELO_K_FACTOR * (a_good - e_good)
      d_evil == ELO_K_FACTOR * ((Scale - a_good) - (Scale - e_good))
  IN  [n \in DOMAIN r |->
         r[n] + Present(game, "Good", n) * d_good
              + Present(game, "Evil", n) * d_evil]

RECURSIVE FoldMatches(_, _)
FoldMatches(r, log) ==
  IF log = <<>> THEN r
  ELSE LET k == LeastIdIndex(log)
       IN  FoldMatches(FoldMatch(r, log[k]),
                       SubSeq(log, 1, k - 1) \o SubSeq(log, k + 1, Len(log)))

\* C1: every player of the mapping holds the rating obtained from
\* DEFAULT_RATING by applying, in ascending game_id order, the delta of every
\* match of the current history in which the player appears.
C1_RatingIsFoldOverMatches ==
  \A n \in DOMAIN players :
    players[n].current_rating =
      FoldMatches([x \in Names |-> DEFAULT_RATING * Scale], game_log)[n]

\* The same fold with the delta applied once per entry of the name: this is
\* what every replay yields, duplicated names included.
RatingIsFoldOverEntries ==
  /\ HistoryNames \subseteq DOMAIN players
  /\ \A n \in DOMAIN players :
       players[n].current_rating =
         FoldRatings([x \in Names |-> DEFAULT_RATING * Scale], game_log)[n]

\* ---- C2 -----------------------------------------------------------------
\* C2: after a delete, the player mapping is the one a replay of the
\* remaining history builds when that match was never there (a replay from
\* the empty mapping).
C2_DeleteAsIfNeverThere ==
  op.kind = "delete" => players = recalc_all(EmptyPlayers, game_log)

\* ---- C3 -----------------------------------------------------------------
\* C3: replaying the saved history gives the same mapping from the players
\* loaded from players.json as from the empty mapping.
C3_ReplayIgnoresPriorPlayers ==
  recalc_all(load_players(saved_players), saved_game_log)
    = recalc_all(EmptyPlayers, saved_game_log)

\* ---- C4 -----------------------------------------------------------------
\* C4: a second recalc_all on the unchanged history changes nothing.
C4_ReplayIdempotent == recalc_all(players, game_log) = players

\* the first replay recorded two matches for some player
C4_Witness ==
  \E n \in DOMAIN players :
    /\ Len(players[n].rating_history) >= 2
    /\ Len(players[n].game_history) >= 2
    /\ players[n].games_overall >= 2

\* ---- C5 -----------------------------------------------------------------
Earlier(pl, m) ==
  LET Before(e) == e.game_number < m
  IN  <<SelectSeq(pl.rating_history, Before), SelectSeq(pl.game_history, Before)>>

\* C5: saving an edit of match m leaves every snapshot and game record with
\* game_number < m as it was; a player the edit introduces has none.
C5_EditLocality ==
  [][op'.kind = "edit" =>
       /\ \A n \in DOMAIN players :
            /\ n \in DOMAIN players'
            /\ Earlier(players'[n], op'.m) = Earlier(players[n], op'.m)
       /\ \A n \in DOMAIN players' \ DOMAIN players :
            Earlier(players'[n], op'.m) = <<<<>>, <<>>>>]_vars

\* an edit of a match was saved and a player of an earlier match also has an
\* entry for the edited match
C5_Witness ==
  /\ op.kind = "edit" /\ Completed(op)
  /\ \E n \in DOMAIN players :
       \E i, j \in 1..Len(players[n].game_history) :
         /\ players[n].game_history[i].game_number < op.m
         /\ players[n].game_history[j].game_number = op.m

\* ---- C6 -----------------------------------------------------------------
RecDelta(rec) == rec.rating_after - rec.rating_before

C7_CountersAddUp ==
  \A n \in DOMAIN players :
    players[n].games_good + players[n].games_evil = players[n].games_overall

\* a player has been replayed on both teams
C7_Witness ==
  \E n \in DOMAIN players :
    players[n].games_good > 0 /\ players[n].games_evil > 0

\* ---- C8 -----------------------------------------------------------------
MatchesOf(n) == Cardinality({i \in 1..Len(game_log) : n \in GameNames(game_log[i])})

\* C8: a player's rating_history has one snapshot per match of the history
\* naming the player: as many as those matches, as many as games_overall,
\* and no game_number twice.
C8_OneSnapshotPerMatch ==
  \A n \in DOMAIN players :
    LET h == players[n].rating_history
    IN  /\ Len(h) = MatchesOf(n)
        /\ Len(h) = players[n].games_overall
        /\ \A i, j \in 1..Len(h) :
             h[i].game_number = h[j].game_number => i = j

\* ---- C9 -----------------------------------------------------------------
\* C9: a submit_game or save_changes whose Evil-team or winner selection is
\* not 1 or 2 changes neither the history, the players, next_game_id nor the
\* saved files.
C9_InvalidSelectionRejected ==
  [][(/\ op'.kind \in {"submit", "edit"}
      /\ (op'.evil_sel \notin {1, 2} \/ op'.winner_sel \notin {1, 2}))
       => UNCHANGED <<game_log, players, next_game_id,
                      saved_players, saved_game_log>>]_vars

\* a submission with an Evil team but no winner selected was handled on a
\* non-empty history
C9_Witness ==
  /\ op.kind = "submit"
  /\ op.evil_sel \in {1, 2} /\ op.winner_sel = 0
  /\ game_log # <<>>

\* ---- C10 ----------------------------------------------------------------
\* C10: a submit, edit or delete whose replay raises leaves the history and
\* the player mapping in memory as they were before it started.
C10_RaisedReplayAllOrNothing ==
  [][op'.kind \in {"submit_raised", "edit_raised", "delete_raised"}
       => (game_log' = game_log /\ players' = players)]_vars

\* ---- C11 ----------------------------------------------------------------
\* C11: a submit, edit or delete whose replay raises leaves players.json and
\* gamelog.json as they were; one that completes has written the mutated
\* history and the players replayed from it.
C11_SaveOnlyAfterReplay ==
  [][/\ op'.kind \in {"submit_raised", "edit_raised", "delete_raised"}
          => UNCHANGED <<saved_players, saved_game_log>>
     /\ (op'.kind \in {"submit", "edit", "delete"} /\ Completed(op'))
          => /\ saved_game_log' = game_log'
             /\ players' = recalc_all(players, game_log')
             /\ saved_players' = save_players(players')]_vars

\* a replay has raised on a changed history while the files hold games
C11_Witness ==
  /\ op.kind \in {"submit_raised", "edit_raised", "delete_raised"}
  /\ saved_game_log # <<>>
  /\ saved_game_log # game_log

\* ---- C12 ----------------------------------------------------------------
\* C12: when a submit, an edit or a delete has completed, the players are
\* those of a replay of the whole current history and the leaderboard rows
\* are those refresh_player_table renders from them.
C12_LeaderboardShowsCurrentHistory ==
  (op.kind \in {"submit", "edit", "delete"} /\ Completed(op))
    => /\ players = recalc_all(players, game_log)
       /\ tree = refresh_player_table(recalc_all(players, game_log),
                                     game_range_entry)

\* ---- C13 ----------------------------------------------------------------
IdsOf(log) == {log[i].game_id : i \in 1..Len(log)}

\* C13: no two records of the history have the same game_id, and the id a
\* completed submission has assigned is held by exactly its record.
C13_GameIdsDistinct ==
  /\ \A i, j \in 1..Len(game_log) :
       game_log[i].game_id = game_log[j].game_id => i = j
  /\ (op.kind = "submit" /\ Completed(op))
       => Cardinality({i \in 1..Len(game_log) : game_log[i].game_id = op.m}) = 1

\* a game was submitted to a loaded history whose ids are not 1..n, after a
\* delete
C13_Witness ==
  /\ op.kind = "submit" /\ Completed(op)
  /\ IdsOf(game_log) # 1..Len(game_log)
  /\ \E i \in 1..Len(LoadedHistory) :
       LoadedHistory[i].game_id \notin IdsOf(game_log)

\* ---- C14 ----------------------------------------------------------------
\* C14: a saved edit of match m keeps the number of records, keeps game_id,
\* date, game_mode and story_teller of every record, and keeps every record
\* other than m as it was.
C14_EditFrame ==
  [][(op'.kind = "edit" /\ Completed(op'))
       => /\ Len(game_log') = Len(game_log)
          /\ \A i \in 1..Len(game_log) :
               /\ game_log'[i].game_id = game_log[i].game_id
               /\ game_log'[i].date = game_log[i].date
               /\ game_log'[i].game_mode = game_log[i].game_mode
               /\ game_log'[i].story_teller = game_log[i].story_teller
               /\ game_log[i].game_id # op'.m => game_log'[i] = game_log[i]]_vars

\* an edit has replaced the roster of a match that has a story teller and is
\* not the only record
C14_Witness ==
  /\ op.kind = "edit" /\ Completed(op)
  /\ Len(game_log) >= 2
  /\ \E i \in 1..Len(game_log) :
       /\ game_log[i].game_id = op.m
       /\ game_log[i].story_teller = "ST"
       /\ game_log[i].game_mode # "Trouble Brewing"
       /\ game_log[i].players = players_in_game(<<"B">>, <<>>, op.evil_sel)

\* ---- C15 ----------------------------------------------------------------
Orderings(n) == {f \in [1..n -> 1..n] : \A i, j \in 1..n : f[i] = f[j] => i = j}

Reorder(log, f) == [i \in 1..Len(log) |-> log[f[i]]]

\* C15: recalc_all gives the same players for every ordering of the records
\* of the history in the stored list.
C15_ReplayOrderIndependent ==
  \A f \in Orderings(Len(game_log)) :
    recalc_all(players, Reorder(game_log, f)) = recalc_all(players, game_log)

\* the history has two matches whose replay in stored order, without the
\* sort, gives other players for some ordering
C15_Witness ==
  /\ Len(game_log) >= 2
  /\ \E f \in Orderings(Len(game_log)) :
       ReplayGames(ResetAll(players), Reorder(game_log, f), 1) # players
  /\ players = recalc_all(players, game_log)

\* ---- C16 ----------------------------------------------------------------
Alignments == {"Good", "Evil"}

\* C16: the record a completed submit_game or save_changes has written has
\* the n1 entries of roster 1 on the team the Evil selection gives roster 1,
\* the entries of roster 2 on the other team, and as winning_team the team of
\* the roster selected as winner; every record of the history has
\* winning_team and every team in {Good, Evil}.
C16_AlignmentsFromSelections ==
  [][(op'.kind \in {"submit", "edit"} /\ Completed(op'))
       => /\ \E i \in 1..Len(game_log') :
               LET g == game_log'[i]
                   roster1 == IF op'.evil_sel = 1 THEN "Evil" ELSE "Good"
                   roster2 == CHOOSE t \in Alignments : t # roster1
               IN  /\ g.game_id = op'.m
                   /\ \A k \in 1..Len(g.players) :
                        g.players[k].team = IF k <= op'.n1 THEN roster1
                                            ELSE roster2
                   /\ g.winning_team = IF op'.winner_sel = 1 THEN roster1
                                       ELSE roster2
          /\ \A i \in 1..Len(game_log') :
               /\ game_log'[i].winning_team \in Alignments
               /\ \A k \in 1..Len(game_log'[i].players) :
                    game_log'[i].players[k].team \in Alignments]_vars

\* an edit with roster 1 Evil and roster 2 the winner was saved with a name
\* on each roster
C16_Witness ==
  /\ op.kind = "edit" /\ Completed(op)
  /\ op.evil_sel = 1 /\ op.winner_sel = 2 /\ op.n1 = 1
  /\ \E i \in 1..Len(game_log) :
       /\ game_log[i].game_id = op.m
       /\ Len(game_log[i].players) = 2
       /\ game_log[i].winning_team = "Good"

\* ---- C17 ----------------------------------------------------------------
\* the teams of a bucket: every team for the overall bucket
BucketTeams(bucket) == IF bucket = "overall" THEN {"Good", "Evil"} ELSE {bucket}

\* the matches up to game_id m in which n has an entry in the bucket
BucketGames(n, m, bucket) ==
  {i \in 1..Len(game_log) :
     /\ game_log[i].game_id <= m
     /\ \E k \in 1..Len(game_log[i].players) :
          /\ game_log[i].players[k].name = n
          /\ game_log[i].players[k].team \in BucketTeams(bucket)}

\* those of them n's team won
BucketWins(n, m, bucket) ==
  {i \in BucketGames(n, m, bucket) :
     \E k \in 1..Len(game_log[i].players) :
       /\ game_log[i].players[k].name = n
       /\ game_log[i].players[k].team \in BucketTeams(bucket)
       /\ game_log[i].players[k].team = game_log[i].winning_team}

BucketPct(n, m, bucket) ==
  Pct(Cardinality(BucketWins(n, m, bucket)),
      Cardinality(BucketGames(n, m, bucket)))

\* C17: every snapshot's overall, good and evil percentage is 100 * wins /
\* games of the bucket counted over the player's matches with game_id up to
\* the snapshot's game_number, and None when the bucket has no match.
C17_PercentagesFromMatches ==
  \A n \in DOMAIN players :
    \A k \in 1..Len(players[n].rating_history) :
      LET snap == players[n].rating_history[k]
      IN  /\ snap.overall_win_pct = BucketPct(n, snap.game_number, "overall")
          /\ snap.good_win_pct = BucketPct(n, snap.game_number, "Good")
          /\ snap.evil_win_pct = BucketPct(n, snap.game_number, "Evil")

\* The same with wins and games counted over the entries record_game has
\* seen up to the snapshot (the first k game records): this is what every
\* replay yields, duplicated names included.
EntryPct(n, k, teams) ==
  LET h == players[n].game_history
      games == {i \in 1..k : h[i].team \in teams}
      wins == {i \in games : h[i].win}
  IN  Pct(Cardinality(wins), Cardinality(games))

PercentagesFromEntries ==
  \A n \in DOMAIN players :
    /\ Len(players[n].rating_history) = Len(players[n].game_history)
    /\ \A k \in 1..Len(players[n].rating_history) :
         LET snap == players[n].rating_history[k]
         IN  /\ snap.overall_win_pct = EntryPct(n, k, {"Good", "Evil"})
             /\ snap.good_win_pct = EntryPct(n, k, {"Good"})
             /\ snap.evil_win_pct = EntryPct(n, k, {"Evil"})

\* ---- C18 ----------------------------------------------------------------
\* C18: the first game record of every player has rating_before =
\* DEFAULT_RATING.
C18_ColdStart ==
  \A n \in DOMAIN players :
    players[n].game_history # <<>>
      => players[n].game_history[1].rating_before = DEFAULT_RATING * Scale

\* the application was started on a players.json that holds another rating
\* for a player of the history
C18_Witness ==
  /\ op.kind = "startup"
  /\ \E n \in DOMAIN saved_players :
       /\ saved_players[n].current_rating # DEFAULT_RATING * Scale
       /\ n \in DOMAIN players
       /\ players[n].game_history # <<>>

\* ---- C19 ----------------------------------------------------------------
\* the rating n held when the replay reached match m
RatingBeforeMatch(n, m) ==
  LET h == players[n].game_history
      first == CHOOSE i \in 1..Len(h) :
                 /\ h[i].game_number = m
                 /\ \A j \in 1..(i - 1) : h[j].game_number # m
  IN  h[first].rating_before

RECURSIVE SumBeforeMatch(_, _)
SumBeforeMatch(game, k) ==
  IF k = 0 THEN 0
  ELSE RatingBeforeMatch(game.players[k].name, game.game_id)
         + SumBeforeMatch(game, k - 1)

\* the delta of a match all of whose entries are on one team, computed
\* against an opposing average of DEFAULT_RATING
OneTeamDelta(game) ==
  LET team == game.players[1].team
      avg == SumBeforeMatch(game, Len(game.players)) \div Len(game.players)
      default == DEFAULT_RATING * Scale
      expected == IF team = "Good" THEN expected_score(avg, default)
                  ELSE Scale - expected_score(default, avg)
      result == IF (team = "Good") <=> (game.winning_team = "Good")
                THEN Scale ELSE 0
  IN  ELO_K_FACTOR * (result - expected)

OneTeamOnly(game) ==
  /\ game.players # <<>>
  /\ \A k \in 1..Len(game.players) : game.players[k].team = game.players[1].team

\* C19: a match with entries on one team only has been replayed, and every
\* game record of it carries the delta computed against an opposing average
\* of DEFAULT_RATING.
C19_EmptyTeamIsDefault ==
  \A i \in 1..Len(game_log) :
    OneTeamOnly(game_log[i])
      => \A n \in GameNames(game_log[i]) :
           /\ n \in DOMAIN players
           /\ \E j \in 1..Len(players[n].game_history) :
                players[n].game_history[j].game_number = game_log[i].game_id
           /\ \A j \in 1..Len(players[n].game_history) :
                players[n].game_history[j].game_number = game_log[i].game_id
                  => RecDelta(players[n].game_history[j])
                       = OneTeamDelta(game_log[i])

\* a match without Good players was replayed for a player whose rating was
\* not DEFAULT_RATING
C19_Witness ==
  \E i \in 1..Len(game_log) :
    /\ OneTeamOnly(game_log[i])
    /\ game_log[i].players[1].team = "Evil"
    /\ \E n \in GameNames(game_log[i]) :
         /\ n \in DOMAIN players
         /\ \E j \in 1..Len(players[n].game_history) :
              /\ players[n].game_history[j].game_number = game_log[i].game_id
              /\ players[n].game_history[j].rating_before # DEFAULT_RATING * Scale
              /\ RecDelta(players[n].game_history[j]) # 0

\* ---- C20 ----------------------------------------------------------------
Refreshed(o) == o.kind = "startup" \/ (o.kind = "submit" /\ Completed(o))

\* rows are the rows of a leaderboard of the players ps that lists exactly
\* the names of shown: one row a name, best rating first, ranks 1..n, the
\* percentages of the latest snapshot and games_overall
LeaderboardOf(rows, ps, shown) ==
  /\ Len(rows) = Cardinality(shown)
  /\ {rows[i].pname : i \in 1..Len(rows)} = shown
  /\ \A i \in 1..Len(rows) :
       LET pl == ps[rows[i].pname]
           h == pl.rating_history
       IN  /\ rows[i].rank = i
           /\ \A j \in (i + 1)..Len(rows) :
                pl.current_rating >= ps[rows[j].pname].current_rating
           /\ h # <<>>
           /\ rows[i].overall = pct_to_str(h[Len(h)].overall_win_pct)
           /\ rows[i].good = pct_to_str(h[Len(h)].good_win_pct)
           /\ rows[i].evil = pct_to_str(h[Len(h)].evil_win_pct)
           /\ rows[i].games_played = pl.games_overall

RangeBounds == {None} \cup (0..(MaxLoadedGameId + 1))

\* the positions of the snapshots of history with a number below bound
SnapshotsBelow(history, bound) ==
  {i \in 1..Len(history) : history[i].game_number < bound}

LastOf(S) == CHOOSE i \in S : \A j \in S : j <= i

\* delta is what C21 says of get_rating_delta(player, start_game, end_game)
DeltaAsStated(delta, player, start_game, end_game) ==
  LET history == player.rating_history
      before == SnapshotsBelow(history, start_game)
      at == {i \in 1..Len(history) : history[i].game_number = end_game}
      upto == SnapshotsBelow(history, end_game + 1)
      rating_before == IF before = {} THEN DEFAULT_RATING * Scale
                       ELSE history[LastOf(before)].rating
  IN  IF start_game = None \/ end_game = None \/ history = <<>> \/ upto = {}
      THEN delta.none
      ELSE /\ ~delta.none
           /\ IF at # {}
              THEN \E i \in at :
                     delta.value = history[i].rating - rating_before
              ELSE delta.value = history[LastOf(upto)].rating - rating_before

\* C21: get_rating_delta(player, start, end) is rating_after - rating_before,
\* rating_before being the rating of the most recent snapshot numbered below
\* start (1500 without one) and rating_after the rating of a snapshot
\* numbered end if there is one, else of the nearest snapshot numbered at
\* most end; it is None when start or end is missing, when the player has no
\* snapshot, and when no snapshot is numbered at most end.
C21_RatingDelta ==
  \A n \in DOMAIN players : \A start_game \in RangeBounds, end_game \in RangeBounds :
    DeltaAsStated(get_rating_delta(players[n], start_game, end_game),
                  players[n], start_game, end_game)

\* the range "3-4" has been typed: the rows show the change from the
\* snapshot of game 2 to the snapshot of game 3, game 4 having none
C21_Witness ==
  /\ op.kind = "range_key"
  /\ game_range_entry = <<"3", "-", "4">>
  /\ Len(tree) = 2
  /\ \A i \in 1..Len(tree) :
       LET h == players[tree[i].pname].rating_history
       IN  /\ ~tree[i].delta_str.dash
           /\ tree[i].delta_str.tenths # 0
           /\ get_rating_delta(players[tree[i].pname], 3, 4).value
                = h[3].rating - h[2].rating
\* ---------------------------------------------------------------- C22
\* the handlers that have called refresh_player_table on the text of the
\* game range entry
RangeRefreshed(o) ==
  o.kind \in {"range_key", "clear_range"} \/ (o.kind = "submit" /\ Completed(o))

Dashes(str) == Cardinality({i \in 1..Len(str) : str[i] = "-"})

\* C22: parse_game_range always returns a pair (start_game, end_game), so
\* that refresh_player_table can always unpack its result: whenever a
\* handler has refreshed the leaderboard, the text of the entry parsed to a
\* pair and the refresh did not raise.
C22_RangeIsAlwaysAPair ==
  RangeRefreshed(op) =>
    /\ parse_game_range(game_range_entry).pair
    /\ ~refresh_player_table_raises(game_range_entry)

\* The part of C22 that holds: a text with at most one "-" parses to a pair,
\* (n, n) for a number, the numbers or None on either side of the "-", and
\* (None, None) when a side is not a number; a text with two or more "-"
\* does not parse to a pair.
RangeOfAtMostOneDash ==
  LET range_str == strip(game_range_entry)
      range == parse_game_range(game_range_entry)
      Side(str) == IF strip(str) = <<>> THEN None ELSE int(str)
      Valid(str) == strip(str) = <<>> \/ IsInt(str)
  IN  /\ range.pair <=> Dashes(range_str) <= 1
      /\ Dashes(range_str) = 0 /\ IsInt(range_str) =>
           range = RangePair(int(range_str), int(range_str))
      /\ Dashes(range_str) = 0 /\ ~IsInt(range_str) =>
           range = RangePair(None, None)
      /\ Dashes(range_str) = 1 =>
           LET i == CHOOSE k \in 1..Len(range_str) : range_str[k] = "-"
               a == SubSeq(range_str, 1, i - 1)
               b == SubSeq(range_str, i + 1, Len(range_str))
           IN  range = IF Valid(a) /\ Valid(b) THEN RangePair(Side(a), Side(b))
                       ELSE RangePair(None, None)

\* A submission made while the entry holds a text with two "-": the game is
\* in game_log and replayed, the leaderboard is empty, the files are not
\* written.
SubmitLostToRange ==
  /\ op.kind = "submit" /\ Completed(op)
  /\ Dashes(game_range_entry) = 2
  /\ tree = <<>>
  /\ saved_game_log # game_log
\* ---------------------------------------------------------------- C30
\* the sum of rating_after - rating_before over the records i.. of
\* game_history numbered from start_game to end_game
RECURSIVE SumOfRecordDeltas(_, _, _, _)
SumOfRecordDeltas(game_history, start_game, end_game, i) ==
  IF i > Len(game_history) THEN 0
  ELSE (IF /\ start_game <= game_history[i].game_number
           /\ game_history[i].game_number <= end_game
        THEN game_history[i].rating_after - game_history[i].rating_before
        ELSE 0)
       + SumOfRecordDeltas(game_history, start_game, end_game, i + 1)

\* C30 holds of player n for the range start_game..end_game
DeltaIsSumOfRecords(n, start_game, end_game) ==
  LET delta == get_rating_delta(players[n], start_game, end_game)
  IN  /\ ~delta.none
      /\ delta.value =
           SumOfRecordDeltas(players[n].game_history, start_game, end_game, 1)

RangesOf(n) ==
  {r \in (0..(MaxLoadedGameId + 1)) \X (0..(MaxLoadedGameId + 1)) :
     /\ r[1] <= r[2]
     /\ SnapshotsBelow(players[n].rating_history, r[2] + 1) # {}}

\* C30: for start <= end and a player with a snapshot numbered at most end,
\* get_rating_delta(player, start, end) is the sum of rating_after -
\* rating_before over the player's game records numbered start..end (0 when
\* there is none).
C30_DeltaIsSumOfRecords ==
  \A n \in DOMAIN players : \A r \in RangesOf(n) :
    DeltaIsSumOfRecords(n, r[1], r[2])

\* no match of the history has a name on two lines
NoNameTwice ==
  \A i \in 1..Len(game_log) :
    \A j, k \in 1..Len(game_log[i].players) :
      game_log[i].players[j].name = game_log[i].players[k].name => j = k

\* C30 where no match has a name on two lines
DeltaIsSumOfRecordsNoNameTwice == NoNameTwice => C30_DeltaIsSumOfRecords
\* ---------------------------------------------------------------- C23
\* the third token of a line, or <<>> without one
ThirdToken(line) ==
  LET parts == split_blanks(line)
  IN  IF Len(parts) >= 3 THEN parts[3] ELSE <<>>

HasArrow(token) == \E i \in 1..Len(token) : token[i] = "->"

\* the X of a token X->Y
BeforeArrow(token) ==
  LET k == CHOOSE i \in 1..Len(token) :
             token[i] = "->" /\ \A j \in 1..(i - 1) : token[j] # "->"
  IN  SubSeq(token, 1, k - 1)

\* the box of the i-th player of the assembled record
BoxLabel(c, i) ==
  IF i <= Len(c.team1)
  THEN (IF c.evil_sel = 1 THEN "Evil" ELSE "Good")
  ELSE (IF c.evil_sel = 1 THEN "Good" ELSE "Evil")

\* C23: for a line whose third token is X->Y the parsed initial_team is X
\* capitalized, whatever Y is; and the final team of every player of the
\* assembled match is the label the Evil-team selection gives to the box the
\* line was typed in, whatever the hint.
C23_HintNeverDecidesTeam ==
  call.fn = "submit_game" =>
    LET lines == call.text_team1 \o call.text_team2
        parsed == call.team1 \o call.team2
    IN  /\ Len(parsed) = Len(lines)
        /\ Len(call.game.players) = Len(lines)
        /\ \A i \in 1..Len(lines) :
             /\ HasArrow(ThirdToken(lines[i])) =>
                  parsed[i].initial_team
                    = capitalize(BeforeArrow(ThirdToken(lines[i])))
             /\ call.game.players[i].team = <<BoxLabel(call, i)>>

\* a line with the hint good->evil typed in the box that is Good, and a line
\* with the hint EVIL typed in the box that is Evil
C23_Witness ==
  /\ call.fn = "submit_game"
  /\ call.evil_sel = 2
  /\ Len(call.text_team1) = 1 /\ Len(call.text_team2) = 1
  /\ ThirdToken(call.text_team1[1]) = <<"good", "->", "evil">>
  /\ ThirdToken(call.text_team2[1]) = <<"EVIL">>
  /\ call.game.players[1].team = <<"Good">>
  /\ call.game.players[1].initial_team = <<"Good">>
  /\ call.game.players[2].team = <<"Evil">>
  /\ call.game.players[2].initial_team = <<"Evil">>
\* ---------------------------------------------------------------- C24
\* the matches of games in which a player holds role
MatchesWithRole(games, role) ==
  {k \in 1..Len(games) :
     \E i \in 1..Len(games[k].players) : games[k].players[i].role = role}

\* those in which a holder of role is on the winning team
MatchesWonByRole(games, role) ==
  {k \in 1..Len(games) :
     \E i \in 1..Len(games[k].players) :
       /\ games[k].players[i].role = role
       /\ games[k].players[i].team = games[k].winning_team}

\* C24: the per-role aggregate has an entry for every role held in a match
\* of the list; its games count is the number of matches in which at least
\* one player holds the role, its wins count the number of those in which at
\* least one holder is on the winning team; wins <= games <= matches.
C24_RoleCountedOncePerMatch ==
  call.fn = "update_character_stats" =>
    LET games == call.games
    IN  /\ DOMAIN call.char_stats
             = {role \in {"Legion", "Imp"} : MatchesWithRole(games, role) # {}}
        /\ \A role \in DOMAIN call.char_stats :
             /\ call.char_stats[role].games
                  = Cardinality(MatchesWithRole(games, role))
             /\ call.char_stats[role].wins
                  = Cardinality(MatchesWonByRole(games, role))
             /\ call.char_stats[role].wins <= call.char_stats[role].games
             /\ call.char_stats[role].games <= Len(games)

\* two matches, the first with two Legion on different teams: Legion has 2
\* games and 1 win
C24_Witness ==
  /\ call.fn = "update_character_stats"
  /\ Len(call.games) = 2
  /\ Len(call.games[1].players) = 2
  /\ call.games[1].players[1] = [role |-> "Legion", team |-> "Good"]
  /\ call.games[1].players[2] = [role |-> "Legion", team |-> "Evil"]
  /\ "Legion" \in DOMAIN call.char_stats
  /\ call.char_stats["Legion"] = [games |-> 2, wins |-> 1]
\* ---------------------------------------------------------------- C25
\* the spellings under which a name is looked up: normalized, with every
\* hyphen an underscore, with every underscore a hyphen
LookupSpellings(character_name) ==
  LET normalized == normalize_character_name(character_name)
  IN  {normalized, replace(normalized, "-", "_"), replace(normalized, "_", "-")}

\* C25: for a name none of whose lookup spellings is a key of
\* CHARACTER_ROLE_TYPES, get_character_role_type raises KeyError with the
\* name in its message and returns no category; for a name with a spelling
\* that is a key it returns the category of that key.
C25_UnknownRoleRaises ==
  call.fn = "get_character_role_type" =>
    LET known == LookupSpellings(call.character_name)
                   \cap DOMAIN CHARACTER_ROLE_TYPES
    IN  IF known = {}
        THEN /\ call.result.raised = "KeyError"
             /\ call.result.quoted = call.character_name
             /\ call.result.value = ""
        ELSE /\ call.result.raised = ""
             /\ call.result.value \in {CHARACTER_ROLE_TYPES[k] : k \in known}

\* an unknown name has raised
C25_Witness ==
  /\ call.fn = "get_character_role_type"
  /\ call.character_name = <<"Pit", "-", "gu">>
  /\ call.result.raised = "KeyError"

\* a name spelled with a blank, capitals and the other separator is found
RoleTypeFound ==
  /\ call.fn = "get_character_role_type"
  /\ call.character_name = <<"FANG", "-", "Gu">>
  /\ call.result = Returned("Demons")
\* ---------------------------------------------------------------- C26
\* C26: for every script name the category analytics.py assigns is the one
\* botc_config.categorize_script assigns.
C26_OneCategorization ==
  call.fn = "categorize_script" => call.analytics = call.storyteller_analytics

\* The two agree on every name that is not a spelling of "Everybody Can
\* Play".
CategorizationsAgreeElsewhere ==
  call.fn = "categorize_script"
    /\ normalize_script_name(call.name) # <<"everybody", " ", "can", " ", "play">>
    => call.analytics = call.storyteller_analytics
\* ---------------------------------------------------------------- C27
\* C27: the match edited or deleted through an Edit Game Log window is the
\* match whose "Game <id>" row was selected in that window's listbox.
C27_SelectedMatchIsTheOneChanged ==
  op.kind \in {"window_edit", "window_delete"} => op.m = op.selected

\* After submissions alone the rows of an open listbox still stand at the
\* positions of their games: a new game has the greatest game_id.  The rows
\* of a window are the games at their positions for as long as no game has
\* been deleted since the window was opened.
RowsStandUntilDelete ==
  \A w \in Windows :
    listbox[w].open /\ Len(listbox[w].rows) <= Len(game_log) =>
      \/ \A i \in 1..Len(listbox[w].rows) :
           SortedGames(game_log)[i].game_id = listbox[w].rows[i]
      \/ \E i \in 1..Len(listbox[w].rows) :
           \A j \in 1..Len(game_log) : game_log[j].game_id # listbox[w].rows[i]
\* ---------------------------------------------------------------- C28
\* C28: a match produced by submit_game, opened in the edit window and saved
\* with nothing changed, has the same players in the same order with the
\* same name, roles, role, team and initial_team, and the same winning_team.
C28_EditRoundTrip ==
  call.fn = "save_changes" => call.saved = call.game

\* The round trip is the identity on the matches in which every player was
\* entered with a role.
RoundTripWithRoles ==
  call.fn = "save_changes"
    /\ (\A i \in 1..Len(call.game.players) : call.game.players[i].role # <<>>)
    => call.saved = call.game

\* The round trip changes nothing but roles and role, and those only of the
\* players entered without a role, to their initial_team.
RoundTripWithoutRoles ==
  call.fn = "save_changes" =>
    /\ call.saved.winning_team = call.game.winning_team
    /\ Len(call.saved.players) = Len(call.game.players)
    /\ \A i \in 1..Len(call.game.players) :
         LET before == call.game.players[i]
             after == call.saved.players[i]
         IN  /\ after.name = before.name
             /\ after.team = before.team
             /\ after.initial_team = before.initial_team
             /\ before.role = <<>> =>
                  after.role = before.initial_team
                    /\ after.roles = <<before.initial_team>>
             /\ before.role # <<>> =>
                  after.role = before.role /\ after.roles = before.roles
\* ---------------------------------------------------------------- C29
\* C29: in every replayed match delta_good + delta_evil = 0, the delta of
\* the winning team is strictly positive and that of the losing team
\* strictly negative, each of magnitude less than K.
C29_DeltasExactNegatives ==
  call.fn = "recalc_all" =>
    LET d == call.deltas
        won == IF call.winning_team = "Good" THEN d.delta_good ELSE d.delta_evil
        lost == IF call.winning_team = "Good" THEN d.delta_evil ELSE d.delta_good
    IN  /\ d.delta_good + d.delta_evil = 0
        /\ won > 0 /\ won < ELO_K_FACTOR * FloatOne
        /\ lost < 0 /\ 0 - lost < ELO_K_FACTOR * FloatOne

\* What holds of the deltas: they are exact negatives when Good has won or
\* exp_good is at least 1/2; otherwise they differ by at most K times the
\* rounding error of exp_evil = 1.0 - exp_good, half a unit in the last
\* place of a float in [1/2, 1); the signs and the bound K hold for team
\* averages up to 800 points apart.
DeltasNegativesUpToRounding ==
  call.fn = "recalc_all" =>
    LET d == call.deltas
        won == IF call.winning_team = "Good" THEN d.delta_good ELSE d.delta_evil
        lost == IF call.winning_team = "Good" THEN d.delta_evil ELSE d.delta_good
        sum == d.delta_good + d.delta_evil
        half_ulp == Pow2(FracBits - MantissaBits) \div 2
    IN  /\ call.winning_team = "Good" \/ 2 * d.exp_good >= FloatOne => sum = 0
        /\ sum <= ELO_K_FACTOR * half_ulp /\ 0 - sum <= ELO_K_FACTOR * half_ulp
        /\ won > 0 /\ won < ELO_K_FACTOR * FloatOne
        /\ lost < 0 /\ 0 - lost < ELO_K_FACTOR * FloatOne
====
